---- MODULE Spec2Model ----
(***************************************************************************)
(* Model of bpmn_schema: the Process / BPMNDiagram containers              *)
(* (core/processes.py), the element variants they hold (core/*.py) and the *)
(* rule-based validator (validation/validators.py).                        *)
(*                                                                         *)
(* Python objects are modelled by reference: heap is the sequence of the   *)
(* element objects the caller has constructed, an object reference is an   *)
(* index into heap, and every container holds sequences of references, so  *)
(* that one object can be appended to several lists or twice to one list,  *)
(* exactly as list.append allows.                                          *)
(***************************************************************************)
EXTENDS Integers, Sequences, FiniteSets, TLC

VARIABLES
    heap,      \* the constructed element objects: reference |-> fields
    proc,      \* the constructed Process objects: reference |-> typed collections
    diagram,   \* the BPMNDiagram: its five collections
    rules,     \* BPMNValidator.rules
    results,   \* BPMNValidator.results (the findings buffer)
    lastOp,    \* history: the operation that ran last
    ret,       \* history: what that operation returned or raised
    added,     \* history: how often each element was appended by a Process add_* call
    registered,\* history: the rules passed to add_rule, in call order
    runs,      \* history: validate() calls since the last other call (up to MaxRuns)
    nOps,      \* history: number of mutating calls so far (bounded by MaxOps)
    lastArgs,  \* history: the arguments of the last call, where a specification records them
    log,       \* history: the successful mutating calls in call order, where recorded
    pc         \* the rule a validate() run in progress executes next (0: none in progress)

vars == <<heap, proc, diagram, rules, results, lastOp, ret, added, registered, runs, nOps,
          lastArgs, log, pc>>

\* ---------------------------------------------------------------- bounds
MaxOps == 2
MaxCustomRules == 2
MaxRuns == 2

\* ------------------------------------------------------------------ values
None == "None"

\* Python's True / False as recorded in ret
PyBool(b) == IF b THEN "True" ELSE "False"

\* ValidationSeverity
ERROR == "error"
WARNING == "warning"
INFO == "info"

\* EventType
START == "start"
INTERMEDIATE == "intermediate"
BOUNDARY == "boundary"
END == "end"

GatewayDirections == {"unspecified", "converging", "diverging", "mixed"}

\* GatewayType, by value
EXCLUSIVE == "exclusive"
INCLUSIVE == "inclusive"
PARALLEL == "parallel"
COMPLEX == "complex"
EVENT_BASED == "event_based"
EXCLUSIVE_EVENT_BASED == "exclusive_event_based"
PARALLEL_EVENT_BASED == "parallel_event_based"
GatewayType ==
    {EXCLUSIVE, INCLUSIVE, PARALLEL, COMPLEX, EVENT_BASED, EXCLUSIVE_EVENT_BASED,
     PARALLEL_EVENT_BASED}

\* ActivityMarker, by value, the members the Task operations use
LOOP == "loop"
PARALLEL_MULTI_INSTANCE == "parallel_multi_instance"
SEQUENTIAL_MULTI_INSTANCE == "sequential_multi_instance"

\* EventDefinition, the members the trigger setters use
EventDefinitions == {"none", "timer", "message", "error", "signal"}

\* ---------------------------------------------------------------- elements
\* BPMNElement: the variant is the Python class.  The fields the rules, the
\* lookups and the containers read on any element are kept for every variant (None
\* or empty where the class does not declare them); the fields only the methods of
\* one class read are added by that class.
BPMNElement(variant, id) ==
    [variant |-> variant, id |-> id,
     event_type |-> None, attached_to_ref |-> None, is_interrupting |-> None,
     gateway_direction |-> None,
     source_ref |-> None, target_ref |-> None,
     elements |-> <<>>, sequence_flows |-> <<>>, boundary_events |-> <<>>,
     lanes |-> <<>>, child_lanes |-> <<>>]

Event(id, event_type) ==
    [BPMNElement("Event", id) EXCEPT !.event_type = event_type,
                                     !.is_interrupting = PyBool(TRUE)]
       @@ [event_definition |-> "none", trigger |-> None]
Task(id) ==
    BPMNElement("Task", id)
       @@ [markers |-> <<>>, collection |-> None, element_variable |-> None,
           is_sequential |-> PyBool(FALSE)]
\* Gateway(id=..., gateway_direction=...): gateway_type keeps its class default,
\* the enum member GatewayType.EXCLUSIVE (pydantic does not validate defaults).
Gateway(id, direction) ==
    [BPMNElement("Gateway", id) EXCEPT !.gateway_direction = direction]
       @@ [gateway_type |-> EXCLUSIVE, gateway_type_is_member |-> PyBool(TRUE),
           default_flow |-> None, instantiate |-> PyBool(FALSE)]
\* Gateway(id=..., gateway_type=...): the given kind is validated and, the model
\* configuration being use_enum_values = True, stored as the member's value, a
\* plain str.
GatewayOfType(id, gateway_type) ==
    [Gateway(id, "unspecified") EXCEPT !.gateway_type = gateway_type,
                                       !.gateway_type_is_member = PyBool(FALSE)]
\* Gateway(id=..., gateway_type=..., default_flow=...): the fields are validated
\* one by one against their declared types; nothing relates default_flow to the kind.
GatewayWithDefaultFlow(id, gateway_type, default_flow) ==
    [GatewayOfType(id, gateway_type) EXCEPT !.default_flow = default_flow]
SubProcess(id) == BPMNElement("SubProcess", id)
SequenceFlow(id, source_ref, target_ref) ==
    [BPMNElement("SequenceFlow", id) EXCEPT !.source_ref = source_ref,
                                            !.target_ref = target_ref]
MessageFlow(id, source_ref, target_ref) ==
    [BPMNElement("MessageFlow", id) EXCEPT !.source_ref = source_ref,
                                           !.target_ref = target_ref]
Association(id, source_ref, target_ref) ==
    [BPMNElement("Association", id) EXCEPT !.source_ref = source_ref,
                                           !.target_ref = target_ref]
DataObject(id) == BPMNElement("DataObject", id)
DataStore(id) == BPMNElement("DataStore", id)
Group(id) == BPMNElement("Group", id)
TextAnnotation(id) == BPMNElement("TextAnnotation", id)
Lane(id) == BPMNElement("Lane", id)
Pool(id) == BPMNElement("Pool", id) @@ [process_ref |-> None]

\* Mutant of is_start_event: the comparison of is_end_event.
is_start_event_as_end(o) == heap[o].event_type = END

\* Event.is_start_event / is_end_event
is_start_event(o) == heap[o].event_type = START
is_end_event(o) == heap[o].event_type = END

\* Mutant of attach_to_activity: the event type is left as it was.
attach_to_activity_keep_type(h, e, activity_id, interrupting) ==
    [h EXCEPT ![e].attached_to_ref = activity_id,
              ![e].is_interrupting = PyBool(interrupting)]

\* Event.attach_to_activity, as the heap it leaves
attach_to_activity(h, e, activity_id, interrupting) ==
    [h EXCEPT ![e].event_type = BOUNDARY,
              ![e].attached_to_ref = activity_id,
              ![e].is_interrupting = PyBool(interrupting)]

\* Mutant of is_diverging: the comparison of is_converging.
is_diverging_as_converging(o) == heap[o].gateway_direction = "converging"

\* Gateway.is_diverging / is_converging / is_mixed
is_diverging(o) == heap[o].gateway_direction = "diverging"
is_converging(o) == heap[o].gateway_direction = "converging"
is_mixed(o) == heap[o].gateway_direction = "mixed"

\* Gateway.is_exclusive / is_inclusive: GatewayType is a str
\* enum, so the comparison holds for the member and for its value alike.
is_exclusive(o) == heap[o].gateway_type = EXCLUSIVE
is_inclusive(o) == heap[o].gateway_type = INCLUSIVE

\* Mutant of is_event_based: only the plain event-based kind is recognised.
is_event_based_plain(o) == heap[o].gateway_type = EVENT_BASED

\* Gateway.is_event_based
is_event_based(o) ==
    heap[o].gateway_type \in {EVENT_BASED, EXCLUSIVE_EVENT_BASED, PARALLEL_EVENT_BASED}

\* What evaluating the message of set_default_flow's else branch,
\* f"... {self.gateway_type.value} gateway", leads to: the ValueError is raised
\* when gateway_type is an enum member; a str has no attribute value.
DefaultFlowError(o) ==
    IF heap[o].gateway_type_is_member = PyBool(TRUE) THEN "ValueError" ELSE "AttributeError"

\* A call on an element object that assigns fields of it (h is the heap it leaves).
AssignFields(op, h) ==
    /\ nOps < MaxOps
    /\ heap' = h
    /\ nOps' = nOps + 1
    /\ lastOp' = op
    /\ ret' = None
    /\ runs' = 0
    /\ UNCHANGED <<proc, diagram, rules, results, added, registered>>

\* A call on an element object that raises error and assigns nothing.
RaiseError(op, error) ==
    /\ lastOp' = op
    /\ ret' = error
    /\ runs' = 0
    /\ UNCHANGED <<heap, proc, diagram, rules, results, added, registered, nOps>>

\* Gateway.set_default_flow
SetDefaultFlow(g, flow_id) ==
    IF is_exclusive(g) \/ is_inclusive(g)
    THEN AssignFields("set_default_flow", [heap EXCEPT ![g].default_flow = flow_id])
    ELSE RaiseError("set_default_flow", DefaultFlowError(g))

\* Gateway.enable_process_instantiation
EnableProcessInstantiation(g) ==
    IF is_event_based(g)
    THEN AssignFields("enable_process_instantiation",
                      [heap EXCEPT ![g].instantiate = PyBool(TRUE)])
    ELSE RaiseError("enable_process_instantiation", "ValueError")

\* Gateway.set_as_diverging / set_as_converging / set_as_mixed
SetAsDiverging(g) ==
    AssignFields("set_as_diverging", [heap EXCEPT ![g].gateway_direction = "diverging"])
SetAsConverging(g) ==
    AssignFields("set_as_converging", [heap EXCEPT ![g].gateway_direction = "converging"])
SetAsMixed(g) ==
    AssignFields("set_as_mixed", [heap EXCEPT ![g].gateway_direction = "mixed"])

\* Event.attach_to_activity, the call
AttachToActivity(e, activity_id, interrupting) ==
    AssignFields("attach_to_activity", attach_to_activity(heap, e, activity_id, interrupting))

\* Event.set_timer_trigger / set_message_trigger / set_error_trigger /
\* set_signal_trigger
SetTrigger(op, e, definition, value) ==
    AssignFields(op, [heap EXCEPT ![e].event_definition = definition, ![e].trigger = value])
SetTimerTrigger(e, timer_expression) ==
    SetTrigger("set_timer_trigger", e, "timer", timer_expression)
SetMessageTrigger(e, message_ref) ==
    SetTrigger("set_message_trigger", e, "message", message_ref)
SetErrorTrigger(e, error_code) == SetTrigger("set_error_trigger", e, "error", error_code)
SetSignalTrigger(e, signal_ref) == SetTrigger("set_signal_trigger", e, "signal", signal_ref)

\* marker in self.markers
HasMarker(o, marker) == \E i \in DOMAIN heap[o].markers : heap[o].markers[i] = marker

\* Task.is_multi_instance / is_parallel_multi_instance / is_sequential_multi_instance
is_multi_instance(o) ==
    HasMarker(o, PARALLEL_MULTI_INSTANCE) \/ HasMarker(o, SEQUENTIAL_MULTI_INSTANCE)
is_parallel_multi_instance(o) == HasMarker(o, PARALLEL_MULTI_INSTANCE)
is_sequential_multi_instance(o) == HasMarker(o, SEQUENTIAL_MULTI_INSTANCE)

\* Task.set_multi_instance_parallel, as the heap it leaves
set_multi_instance_parallel(h, t, collection, element_variable) ==
    [h EXCEPT ![t].markers = Append(@, PARALLEL_MULTI_INSTANCE),
              ![t].collection = collection,
              ![t].element_variable = element_variable,
              ![t].is_sequential = PyBool(FALSE)]

\* Mutant of set_multi_instance_sequential: the marker list is replaced.
set_multi_instance_sequential_replacing(h, t, collection, element_variable) ==
    [h EXCEPT ![t].markers = <<SEQUENTIAL_MULTI_INSTANCE>>,
              ![t].collection = collection,
              ![t].element_variable = element_variable,
              ![t].is_sequential = PyBool(TRUE)]

\* Task.set_multi_instance_sequential, as the heap it leaves
set_multi_instance_sequential(h, t, collection, element_variable) ==
    [h EXCEPT ![t].markers = Append(@, SEQUENTIAL_MULTI_INSTANCE),
              ![t].collection = collection,
              ![t].element_variable = element_variable,
              ![t].is_sequential = PyBool(TRUE)]

\* Task.set_multi_instance_parallel / set_multi_instance_sequential, the calls
SetMultiInstanceParallel(t, collection, element_variable) ==
    AssignFields("set_multi_instance_parallel",
                 set_multi_instance_parallel(heap, t, collection, element_variable))
SetMultiInstanceSequential(t, collection, element_variable) ==
    AssignFields("set_multi_instance_sequential",
                 set_multi_instance_sequential(heap, t, collection, element_variable))

\* ---------------------------------------------------------------- Process
Procs == {"P1", "P2"}

\* A Process as constructed with only an id: every typed collection empty.
NewProcess(id) ==
    [id |-> id,
     events |-> <<>>, tasks |-> <<>>, gateways |-> <<>>, subprocesses |-> <<>>,
     sequence_flows |-> <<>>, associations |-> <<>>,
     data_objects |-> <<>>, data_stores |-> <<>>, groups |-> <<>>,
     text_annotations |-> <<>>, lanes |-> <<>>]

\* A BPMNDiagram as constructed with only an id.
NewDiagram ==
    [processes |-> <<>>, pools |-> <<>>, message_flows |-> <<>>,
     global_data_stores |-> <<>>, global_text_annotations |-> <<>>]

\* [x for x in s if Test(x)]
RECURSIVE SelectRefs(_, _)
SelectRefs(s, keep) ==
    IF s = <<>> THEN <<>>
    ELSE (IF Head(s) \in keep THEN <<Head(s)>> ELSE <<>>) \o SelectRefs(Tail(s), keep)

\* Mutant of get_all_elements: the lanes are left out.
get_all_elements_without_lanes(p) ==
    proc[p].events \o proc[p].tasks \o proc[p].gateways \o proc[p].subprocesses \o
    proc[p].sequence_flows \o proc[p].associations \o proc[p].data_objects \o
    proc[p].data_stores \o proc[p].groups \o proc[p].text_annotations

\* Process.get_all_elements
get_all_elements(p) ==
    proc[p].events \o proc[p].tasks \o proc[p].gateways \o proc[p].subprocesses \o
    proc[p].sequence_flows \o proc[p].associations \o proc[p].data_objects \o
    proc[p].data_stores \o proc[p].groups \o proc[p].text_annotations \o proc[p].lanes

\* Mutant of get_all_flow_objects: the tasks come first (the order of the
\* isinstance chain of add_flow_object).
get_all_flow_objects_tasks_first(p) ==
    proc[p].tasks \o proc[p].events \o proc[p].gateways \o proc[p].subprocesses

\* Process.get_all_flow_objects
get_all_flow_objects(p) ==
    proc[p].events \o proc[p].tasks \o proc[p].gateways \o proc[p].subprocesses

\* Process.get_start_events / get_end_events
get_start_events(p) ==
    SelectRefs(proc[p].events, {o \in DOMAIN heap : is_start_event(o)})
get_end_events(p) ==
    SelectRefs(proc[p].events, {o \in DOMAIN heap : is_end_event(o)})

\* The typed collection add_flow_object appends to (isinstance chain); None: ValueError.
FlowObjectCollection(o) ==
    CASE heap[o].variant = "Task" -> "tasks"
      [] heap[o].variant = "Event" -> "events"
      [] heap[o].variant = "Gateway" -> "gateways"
      [] heap[o].variant = "SubProcess" -> "subprocesses"
      [] OTHER -> None

\* Mutant of ConnectingObjectCollection: every flow class is taken for a sequence
\* flow, a MessageFlow included.
ConnectingObjectCollectionAnyFlow(o) ==
    CASE heap[o].variant \in {"SequenceFlow", "MessageFlow"} -> "sequence_flows"
      [] heap[o].variant = "Association" -> "associations"
      [] OTHER -> None

\* The typed collection add_connecting_object appends to; None: ValueError.
ConnectingObjectCollection(o) ==
    CASE heap[o].variant = "SequenceFlow" -> "sequence_flows"
      [] heap[o].variant = "Association" -> "associations"
      [] OTHER -> None

\* The typed collection add_artifact appends to; None: ValueError.
ArtifactCollection(o) ==
    CASE heap[o].variant = "DataObject" -> "data_objects"
      [] heap[o].variant = "DataStore" -> "data_stores"
      [] heap[o].variant = "Group" -> "groups"
      [] heap[o].variant = "TextAnnotation" -> "text_annotations"
      [] OTHER -> None

\* self.<collection>.append(o), or the ValueError of the else branch.
AppendTyped(op, p, o, coll) ==
    IF coll = None
    THEN /\ lastOp' = op
         /\ ret' = "ValueError"
         /\ runs' = 0
         /\ UNCHANGED <<heap, proc, diagram, rules, results, added, registered, nOps>>
    ELSE /\ nOps < MaxOps
         /\ proc' = [proc EXCEPT ![p][coll] = Append(@, o)]
         /\ added' = [added EXCEPT ![p][o] = @ + 1]
         /\ nOps' = nOps + 1
         /\ lastOp' = op
         /\ ret' = None
         /\ runs' = 0
         /\ UNCHANGED <<heap, diagram, rules, results, registered>>

AddFlowObject(p, o) == AppendTyped("add_flow_object", p, o, FlowObjectCollection(o))
\* Mutant of AddConnectingObject: a flow whose source_ref or target_ref is the id
\* of no flow object of the process is rejected.
AddConnectingObjectResolved(p, o) ==
    AppendTyped("add_connecting_object", p, o,
                IF \A ref \in {heap[o].source_ref, heap[o].target_ref} :
                      \E x \in DOMAIN heap :
                         /\ heap[x].id = ref
                         /\ \E i \in DOMAIN get_all_flow_objects(p) :
                               get_all_flow_objects(p)[i] = x
                THEN ConnectingObjectCollection(o) ELSE None)

AddConnectingObject(p, o) ==
    AppendTyped("add_connecting_object", p, o, ConnectingObjectCollection(o))
AddArtifact(p, o) == AppendTyped("add_artifact", p, o, ArtifactCollection(o))

\* Process.add_lane: no type test, appends whatever it is given.
AddLane(p, o) ==
    /\ nOps < MaxOps
    /\ proc' = [proc EXCEPT ![p].lanes = Append(@, o)]
    /\ added' = [added EXCEPT ![p][o] = @ + 1]
    /\ nOps' = nOps + 1
    /\ lastOp' = "add_lane"
    /\ ret' = None
    /\ runs' = 0
    /\ UNCHANGED <<heap, diagram, rules, results, registered>>

\* Mutant of AddProcess: the validator's buffer is emptied when the diagram changes.
AddProcessInvalidating(p) ==
    /\ nOps < MaxOps
    /\ diagram' = [diagram EXCEPT !.processes = Append(@, p)]
    /\ results' = <<>>
    /\ nOps' = nOps + 1
    /\ lastOp' = "add_process"
    /\ ret' = None
    /\ runs' = 0
    /\ UNCHANGED <<heap, proc, rules, added, registered>>

\* BPMNDiagram.add_process
AddProcess(p) ==
    /\ nOps < MaxOps
    /\ diagram' = [diagram EXCEPT !.processes = Append(@, p)]
    /\ nOps' = nOps + 1
    /\ lastOp' = "add_process"
    /\ ret' = None
    /\ runs' = 0
    /\ UNCHANGED <<heap, proc, rules, results, added, registered>>

\* BPMNDiagram.add_pool
AddPool(po) ==
    /\ nOps < MaxOps
    /\ diagram' = [diagram EXCEPT !.pools = Append(@, po)]
    /\ nOps' = nOps + 1
    /\ lastOp' = "add_pool"
    /\ ret' = None
    /\ runs' = 0
    /\ UNCHANGED <<heap, proc, rules, results, added, registered>>

\* Mutant of AddMessageFlow: the list is replaced by one holding the new flow.
AddMessageFlowReplacing(mf) ==
    /\ nOps < MaxOps
    /\ diagram' = [diagram EXCEPT !.message_flows = <<mf>>]
    /\ nOps' = nOps + 1
    /\ lastOp' = "add_message_flow"
    /\ ret' = None
    /\ runs' = 0
    /\ UNCHANGED <<heap, proc, rules, results, added, registered>>

\* BPMNDiagram.add_message_flow
AddMessageFlow(mf) ==
    /\ nOps < MaxOps
    /\ diagram' = [diagram EXCEPT !.message_flows = Append(@, mf)]
    /\ nOps' = nOps + 1
    /\ lastOp' = "add_message_flow"
    /\ ret' = None
    /\ runs' = 0
    /\ UNCHANGED <<heap, proc, rules, results, added, registered>>

\* A call on an element object that appends o to one of its own lists.
AppendNested(op, owner, field, o) ==
    /\ nOps < MaxOps
    /\ heap' = [heap EXCEPT ![owner][field] = Append(@, o)]
    /\ nOps' = nOps + 1
    /\ lastOp' = op
    /\ ret' = None
    /\ runs' = 0
    /\ UNCHANGED <<proc, diagram, rules, results, added, registered>>

\* SubProcess.add_element / add_sequence_flow
SubProcessAddElement(sp, o) == AppendNested("SubProcess.add_element", sp, "elements", o)
SubProcessAddSequenceFlow(sp, f) ==
    AppendNested("SubProcess.add_sequence_flow", sp, "sequence_flows", f)

\* Mutant of SubProcessAddBoundaryEvent: the event is stored without being attached.
SubProcessAddBoundaryEventUnattached(sp, e) ==
    AppendNested("SubProcess.add_boundary_event", sp, "boundary_events", e)

\* SubProcess.add_boundary_event
SubProcessAddBoundaryEvent(sp, e) ==
    /\ nOps < MaxOps
    /\ heap' = [attach_to_activity(heap, e, heap[sp].id, TRUE)
                  EXCEPT ![sp].boundary_events = Append(@, e)]
    /\ nOps' = nOps + 1
    /\ lastOp' = "SubProcess.add_boundary_event"
    /\ ret' = None
    /\ runs' = 0
    /\ UNCHANGED <<proc, diagram, rules, results, added, registered>>

\* Lane.add_child_lane
LaneAddChildLane(l, child) == AppendNested("Lane.add_child_lane", l, "child_lanes", child)

\* Pool.add_lane. The listing of swimlanes.py ends inside this method's
\* docstring, so its body is taken from the specification ("Pool holds ... a list
\* of Lanes"): an append to lanes, like the other add operations.
PoolAddLane(po, l) == AppendNested("Pool.add_lane", po, "lanes", l)

\* ------------------------------------------------------------------ counts
\* A dict is a function from its keys.  The keys of the dict count_elements
\* returns, and the keys count_all_elements starts total_counts with.
ProcessCountKeys ==
    {"events", "tasks", "gateways", "subprocesses", "sequence_flows", "associations",
     "data_objects", "data_stores", "groups", "text_annotations", "lanes"}
DiagramCountKeys ==
    {"processes", "pools", "message_flows", "global_data_stores", "global_text_annotations"}

\* Process.count_elements
count_elements(p) == [key \in ProcessCountKeys |-> Len(proc[p][key])]

\* for key, value in counts.items():
\*     process_counts[key] = process_counts.get(key, 0) + value
AddCounts(process_counts, counts) ==
    [key \in DOMAIN process_counts \cup DOMAIN counts |->
        IF key \in DOMAIN counts
        THEN (IF key \in DOMAIN process_counts THEN process_counts[key] ELSE 0) + counts[key]
        ELSE process_counts[key]]

\* BPMNDiagram.count_all_elements, the loop over self.processes; process_counts
\* starts as the empty dict.
RECURSIVE AggregateCounts(_, _)
AggregateCounts(ps, process_counts) ==
    IF ps = <<>> THEN process_counts
    ELSE AggregateCounts(Tail(ps), AddCounts(process_counts, count_elements(Head(ps))))

\* total_counts.update(process_counts)
DictUpdate(total_counts, process_counts) ==
    [key \in DOMAIN total_counts \cup DOMAIN process_counts |->
        IF key \in DOMAIN process_counts THEN process_counts[key] ELSE total_counts[key]]

\* BPMNDiagram.count_all_elements
count_all_elements ==
    DictUpdate([key \in DiagramCountKeys |-> Len(diagram[key])],
               AggregateCounts(diagram.processes, [key \in {} |-> 0]))

\* ------------------------------------------------------------------ lookup
\* Python's None where an element reference is expected.
NoElement == 0

\* for element in s: if element.id == x: return element
RECURSIVE FirstWithId(_, _)
FirstWithId(s, x) ==
    IF s = <<>> THEN NoElement
    ELSE IF heap[Head(s)].id = x THEN Head(s)
    ELSE FirstWithId(Tail(s), x)

\* Process.get_element_by_id
ProcessGetElementById(p, x) == FirstWithId(get_all_elements(p), x)

\* BPMNDiagram.get_element_by_id, the loop over self.processes
RECURSIVE FirstInProcesses(_, _)
FirstInProcesses(ps, x) ==
    IF ps = <<>> THEN NoElement
    ELSE LET element == ProcessGetElementById(Head(ps), x) IN
         IF element # NoElement THEN element ELSE FirstInProcesses(Tail(ps), x)

\* BPMNDiagram.get_element_by_id, the loop over self.pools and each pool's lanes
RECURSIVE FirstInPools(_, _)
FirstInPools(pools, x) ==
    IF pools = <<>> THEN NoElement
    ELSE IF heap[Head(pools)].id = x THEN Head(pools)
    ELSE LET lane == FirstWithId(heap[Head(pools)].lanes, x) IN
         IF lane # NoElement THEN lane ELSE FirstInPools(Tail(pools), x)

\* Mutant of DiagramGetElementById: the message flows are searched before the pools.
DiagramGetElementByIdFlowsFirst(x) ==
    LET element == FirstInProcesses(diagram.processes, x) IN
    IF element # NoElement THEN element
    ELSE LET message_flow == FirstWithId(diagram.message_flows, x) IN
    IF message_flow # NoElement THEN message_flow
    ELSE LET swimlane == FirstInPools(diagram.pools, x) IN
    IF swimlane # NoElement THEN swimlane
    ELSE LET data_store == FirstWithId(diagram.global_data_stores, x) IN
    IF data_store # NoElement THEN data_store
    ELSE FirstWithId(diagram.global_text_annotations, x)

\* BPMNDiagram.get_element_by_id
DiagramGetElementById(x) ==
    LET element == FirstInProcesses(diagram.processes, x) IN
    IF element # NoElement THEN element
    ELSE LET swimlane == FirstInPools(diagram.pools, x) IN
    IF swimlane # NoElement THEN swimlane
    ELSE LET message_flow == FirstWithId(diagram.message_flows, x) IN
    IF message_flow # NoElement THEN message_flow
    ELSE LET data_store == FirstWithId(diagram.global_data_stores, x) IN
    IF data_store # NoElement THEN data_store
    ELSE FirstWithId(diagram.global_text_annotations, x)

\* A call that returns value and assigns nothing: the lookups and the counts.
Returns(op, value) ==
    /\ lastOp' = op
    /\ ret' = value
    /\ runs' = 0
    /\ UNCHANGED <<heap, proc, diagram, rules, results, added, registered, nOps>>

\* The calls of Process.get_element_by_id / count_elements and of
\* BPMNDiagram.get_element_by_id / count_all_elements
GetElementById(p, x) == Returns("Process.get_element_by_id", ProcessGetElementById(p, x))
DiagramGetElementByIdCall(x) ==
    Returns("BPMNDiagram.get_element_by_id", DiagramGetElementById(x))
CountElements(p) == Returns("count_elements", count_elements(p))
CountAllElements == Returns("count_all_elements", count_all_elements)

\* -------------------------------------------------------------- validation
\* ValidationResult
ValidationResult(severity, element_id, element_type, message, rule_name) ==
    [severity |-> severity, element_id |-> element_id, element_type |-> element_type,
     message |-> message, rule_name |-> rule_name]

\* The rule objects a validator can hold.  The four built-ins are constructed by
\* BPMNValidator.__init__; "base_rule" is a ValidationRule instance, whose validate
\* raises NotImplementedError; "custom_info_rule" and "custom_error_rule" stand for
\* caller subclasses that return one finding of that severity for the diagram.
BuiltinRules == <<"start_event_rule", "end_event_rule", "sequence_flow_rule", "gateway_rule">>
CustomRules == {"base_rule", "custom_info_rule", "custom_error_rule"}

\* Mutant of incoming_flows: the flows are matched on source_ref.
incoming_flows_by_source(p, id) ==
    SelectRefs(proc[p].sequence_flows, {f \in DOMAIN heap : heap[f].source_ref = id})

\* [f for f in process.sequence_flows if f.target_ref == id]
incoming_flows(p, id) ==
    SelectRefs(proc[p].sequence_flows, {f \in DOMAIN heap : heap[f].target_ref = id})
\* [f for f in process.sequence_flows if f.source_ref == id]
outgoing_flows(p, id) ==
    SelectRefs(proc[p].sequence_flows, {f \in DOMAIN heap : heap[f].source_ref = id})

\* Mutant of StartEventRuleBody: the warning is raised from one start event on.
StartEventRuleBodyOffByOne(p) ==
    LET n == Len(get_start_events(p)) IN
    IF n = 0
    THEN <<ValidationResult(ERROR, proc[p].id, "Process",
                            <<"Process must have at least one start event">>,
                            "start_event_rule")>>
    ELSE IF n >= 1
    THEN <<ValidationResult(WARNING, proc[p].id, "Process",
                            <<"Process has", n, "start events">>,
                            "start_event_rule")>>
    ELSE <<>>

\* StartEventRule.validate, body of the loop over diagram.processes
StartEventRuleBody(p) ==
    LET n == Len(get_start_events(p)) IN
    IF n = 0
    THEN <<ValidationResult(ERROR, proc[p].id, "Process",
                            <<"Process must have at least one start event">>,
                            "start_event_rule")>>
    ELSE IF n > 1
    THEN <<ValidationResult(WARNING, proc[p].id, "Process",
                            <<"Process has", n, "start events">>,
                            "start_event_rule")>>
    ELSE <<>>

\* Mutant of EndEventRuleBody: the finding takes the rule's own severity (error).
EndEventRuleBodyAsError(p) ==
    IF Len(get_end_events(p)) = 0
    THEN <<ValidationResult(ERROR, proc[p].id, "Process",
                            <<"Process should have at least one end event">>,
                            "end_event_rule")>>
    ELSE <<>>

\* EndEventRule.validate, body of the loop over diagram.processes
EndEventRuleBody(p) ==
    IF Len(get_end_events(p)) = 0
    THEN <<ValidationResult(WARNING, proc[p].id, "Process",
                            <<"Process should have at least one end event">>,
                            "end_event_rule")>>
    ELSE <<>>

\* Mutant of SequenceFlowRuleObject: the start-event check reads the outgoing flows.
SequenceFlowRuleObjectSwapped(p, o) ==
    LET inc == incoming_flows(p, heap[o].id)
        out == outgoing_flows(p, heap[o].id)
    IN  (IF heap[o].variant = "Event" /\ is_start_event(o) /\ out # <<>>
         THEN <<ValidationResult(ERROR, heap[o].id, "StartEvent",
                                 <<"Start events cannot have incoming sequence flows">>,
                                 "sequence_flow_rule")>>
         ELSE <<>>)
        \o
        (IF heap[o].variant = "Event" /\ is_end_event(o) /\ out # <<>>
         THEN <<ValidationResult(ERROR, heap[o].id, "EndEvent",
                                 <<"End events cannot have outgoing sequence flows">>,
                                 "sequence_flow_rule")>>
         ELSE <<>>)
        \o
        (IF heap[o].variant = "Task" /\ inc = <<>> /\ out = <<>>
         THEN <<ValidationResult(WARNING, heap[o].id, "Task",
                                 <<"Task is not connected to any sequence flows">>,
                                 "sequence_flow_rule")>>
         ELSE <<>>)

\* SequenceFlowRule.validate, body of the loop over process.get_all_flow_objects()
SequenceFlowRuleObject(p, o) ==
    LET inc == incoming_flows(p, heap[o].id)
        out == outgoing_flows(p, heap[o].id)
    IN  (IF heap[o].variant = "Event" /\ is_start_event(o) /\ inc # <<>>
         THEN <<ValidationResult(ERROR, heap[o].id, "StartEvent",
                                 <<"Start events cannot have incoming sequence flows">>,
                                 "sequence_flow_rule")>>
         ELSE <<>>)
        \o
        (IF heap[o].variant = "Event" /\ is_end_event(o) /\ out # <<>>
         THEN <<ValidationResult(ERROR, heap[o].id, "EndEvent",
                                 <<"End events cannot have outgoing sequence flows">>,
                                 "sequence_flow_rule")>>
         ELSE <<>>)
        \o
        (IF heap[o].variant = "Task" /\ inc = <<>> /\ out = <<>>
         THEN <<ValidationResult(WARNING, heap[o].id, "Task",
                                 <<"Task is not connected to any sequence flows">>,
                                 "sequence_flow_rule")>>
         ELSE <<>>)

RECURSIVE SequenceFlowRuleObjects(_, _)
SequenceFlowRuleObjects(p, objs) ==
    IF objs = <<>> THEN <<>>
    ELSE SequenceFlowRuleObject(p, Head(objs)) \o SequenceFlowRuleObjects(p, Tail(objs))

\* SequenceFlowRule.validate, body of the loop over diagram.processes
SequenceFlowRuleBody(p) == SequenceFlowRuleObjects(p, get_all_flow_objects(p))

\* Mutant of GatewayRuleGateway: the direction warnings are skipped for a gateway
\* that already got an error (elif instead of independent ifs).
GatewayRuleGatewayElif(p, g) ==
    LET inc == incoming_flows(p, heap[g].id)
        out == outgoing_flows(p, heap[g].id)
    IN  (IF Len(inc) = 0
         THEN <<ValidationResult(ERROR, heap[g].id, "Gateway",
                                 <<"Gateway must have at least one incoming sequence flow">>,
                                 "gateway_rule")>>
         ELSE <<>>)
        \o
        (IF Len(out) = 0
         THEN <<ValidationResult(ERROR, heap[g].id, "Gateway",
                                 <<"Gateway must have at least one outgoing sequence flow">>,
                                 "gateway_rule")>>
         ELSE <<>>)
        \o
        (IF Len(inc) # 0 /\ Len(out) # 0 /\ is_diverging(g) /\ Len(out) < 2
         THEN <<ValidationResult(WARNING, heap[g].id, "Gateway",
                                 <<"Diverging gateway should have multiple outgoing flows">>,
                                 "gateway_rule")>>
         ELSE <<>>)
        \o
        (IF Len(inc) # 0 /\ Len(out) # 0 /\ is_converging(g) /\ Len(inc) < 2
         THEN <<ValidationResult(WARNING, heap[g].id, "Gateway",
                                 <<"Converging gateway should have multiple incoming flows">>,
                                 "gateway_rule")>>
         ELSE <<>>)

\* GatewayRule.validate, body of the loop over process.gateways
GatewayRuleGateway(p, g) ==
    LET inc == incoming_flows(p, heap[g].id)
        out == outgoing_flows(p, heap[g].id)
    IN  (IF Len(inc) = 0
         THEN <<ValidationResult(ERROR, heap[g].id, "Gateway",
                                 <<"Gateway must have at least one incoming sequence flow">>,
                                 "gateway_rule")>>
         ELSE <<>>)
        \o
        (IF Len(out) = 0
         THEN <<ValidationResult(ERROR, heap[g].id, "Gateway",
                                 <<"Gateway must have at least one outgoing sequence flow">>,
                                 "gateway_rule")>>
         ELSE <<>>)
        \o
        (IF is_diverging(g) /\ Len(out) < 2
         THEN <<ValidationResult(WARNING, heap[g].id, "Gateway",
                                 <<"Diverging gateway should have multiple outgoing flows">>,
                                 "gateway_rule")>>
         ELSE <<>>)
        \o
        (IF is_converging(g) /\ Len(inc) < 2
         THEN <<ValidationResult(WARNING, heap[g].id, "Gateway",
                                 <<"Converging gateway should have multiple incoming flows">>,
                                 "gateway_rule")>>
         ELSE <<>>)

RECURSIVE GatewayRuleGateways(_, _)
GatewayRuleGateways(p, gs) ==
    IF gs = <<>> THEN <<>>
    ELSE GatewayRuleGateway(p, Head(gs)) \o GatewayRuleGateways(p, Tail(gs))

\* GatewayRule.validate, body of the loop over diagram.processes
GatewayRuleBody(p) == GatewayRuleGateways(p, proc[p].gateways)

\* What one rule does for one process of the diagram.
RuleBody(rule, p) ==
    CASE rule = "start_event_rule" -> StartEventRuleBody(p)
      [] rule = "end_event_rule" -> EndEventRuleBody(p)
      [] rule = "sequence_flow_rule" -> SequenceFlowRuleBody(p)
      [] rule = "gateway_rule" -> GatewayRuleBody(p)

\* Mutant of ForProcesses: a process without flow objects is skipped.
RECURSIVE ForProcessesSkipEmpty(_, _)
ForProcessesSkipEmpty(rule, ps) ==
    IF ps = <<>> THEN <<>>
    ELSE (IF get_all_flow_objects(Head(ps)) = <<>> THEN <<>> ELSE RuleBody(rule, Head(ps)))
         \o ForProcessesSkipEmpty(rule, Tail(ps))

\* for process in diagram.processes: ... (the loop every built-in rule runs)
RECURSIVE ForProcesses(_, _)
ForProcesses(rule, ps) ==
    IF ps = <<>> THEN <<>>
    ELSE RuleBody(rule, Head(ps)) \o ForProcesses(rule, Tail(ps))

\* rule.validate(self.diagram) for a rule that returns
RuleValidate(rule) ==
    CASE rule = "custom_info_rule" ->
            <<ValidationResult(INFO, None, None, <<"custom info">>, rule)>>
      [] rule = "custom_error_rule" ->
            <<ValidationResult(ERROR, None, None, <<"custom error">>, rule)>>
      [] OTHER -> ForProcesses(rule, diagram.processes)

\* ValidationRule.validate raises NotImplementedError
RuleRaises(rule) == rule = "base_rule"

\* any(result.severity == severity for result in buf)
AnySeverity(buf, severity) == \E i \in 1..Len(buf) : buf[i].severity = severity

\* Mutant of ClearResults: the buffer is not emptied.
ClearResultsKeep(buf) == buf

\* self.results.clear()
ClearResults(buf) == <<>>

\* Mutant of ExtendResults: the buffer is replaced by the rule's findings.
ExtendResultsReplacing(buf, rule_results) == rule_results

\* self.results.extend(rule_results)
ExtendResults(buf, rule_results) == buf \o rule_results

\* Mutant of RunRules: fail-fast, the loop stops once the buffer holds an error.
RECURSIVE RunRulesFailFast(_, _, _)
RunRulesFailFast(rs, i, buf) ==
    IF i > Len(rs) \/ AnySeverity(buf, ERROR) THEN [results |-> buf, raised |-> FALSE]
    ELSE IF RuleRaises(rs[i]) THEN [results |-> buf, raised |-> TRUE]
    ELSE RunRulesFailFast(rs, i + 1, ExtendResults(buf, RuleValidate(rs[i])))

\* The for loop of BPMNValidator.validate from rule i on, with buf the buffer so far:
\* the buffer when the loop ends, and whether it ended by an exception.
RECURSIVE RunRules(_, _, _)
RunRules(rs, i, buf) ==
    IF i > Len(rs) THEN [results |-> buf, raised |-> FALSE]
    ELSE IF RuleRaises(rs[i]) THEN [results |-> buf, raised |-> TRUE]
    ELSE RunRules(rs, i + 1, ExtendResults(buf, RuleValidate(rs[i])))

\* Mutant of ValidateReturn: a warning fails validation too.
ValidateReturnStrict(buf) == ~AnySeverity(buf, ERROR) /\ ~AnySeverity(buf, WARNING)

\* The value validate returns: not any(... == ValidationSeverity.ERROR ...)
ValidateReturn(buf) == ~AnySeverity(buf, ERROR)

\* BPMNValidator.has_errors / has_warnings
has_errors == AnySeverity(results, ERROR)
has_warnings == AnySeverity(results, WARNING)

\* Mutant of Validate: the loop consumes the rule list (while self.rules:
\* rule = self.rules.pop(0)).
ValidateDrainingRules ==
    LET run == RunRules(rules, 1, ClearResults(results)) IN
    /\ results' = run.results
    /\ rules' = <<>>
    /\ ret' = IF run.raised THEN "NotImplementedError" ELSE PyBool(ValidateReturn(run.results))
    /\ lastOp' = "validate"
    /\ runs' = IF runs < MaxRuns THEN runs + 1 ELSE runs
    /\ UNCHANGED <<heap, proc, diagram, added, registered, nOps>>

\* BPMNValidator.validate
Validate ==
    LET run == RunRules(rules, 1, ClearResults(results)) IN
    /\ results' = run.results
    /\ ret' = IF run.raised THEN "NotImplementedError" ELSE PyBool(ValidateReturn(run.results))
    /\ lastOp' = "validate"
    /\ runs' = IF runs < MaxRuns THEN runs + 1 ELSE runs
    /\ UNCHANGED <<heap, proc, diagram, rules, added, registered, nOps>>

\* BPMNValidator.validate run by a caller while another caller mutates the
\* graph: the run is a sequence of steps, and the other caller's add_* can take
\* place between any two of them.  ValidateClear is self.results.clear(),
\* ValidateRule one iteration of the for loop (the rule's findings are computed on
\* the graph as it is then), ValidateFinish the return statement.
ValidateClear ==
    /\ pc = 0
    /\ results' = ClearResults(results)
    /\ pc' = 1
    /\ lastOp' = "validate.clear"
    /\ ret' = None
    /\ UNCHANGED <<heap, proc, diagram, rules, added, registered, runs, nOps>>

\* Mutant of NextRule: every other rule is skipped.
NextRuleSkipping(i) == i + 2

\* for rule in self.rules: the position after rule i
NextRule(i) == i + 1

ValidateRule ==
    /\ pc \in 1..Len(rules)
    /\ ~RuleRaises(rules[pc])
    /\ results' = ExtendResults(results, RuleValidate(rules[pc]))
    /\ pc' = NextRule(pc)
    /\ lastOp' = "validate.rule"
    /\ ret' = None
    /\ UNCHANGED <<heap, proc, diagram, rules, added, registered, runs, nOps>>

ValidateFinish ==
    /\ pc > Len(rules)
    /\ pc' = 0
    /\ lastOp' = "validate"
    /\ ret' = PyBool(ValidateReturn(results))
    /\ runs' = IF runs < MaxRuns THEN runs + 1 ELSE runs
    /\ UNCHANGED <<heap, proc, diagram, rules, results, added, registered, nOps>>

\* self.rules.append(rule)
RulesAppend(rs, rule) == Append(rs, rule)

\* BPMNValidator.add_rule
AddRule(rule) ==
    /\ Len(registered) < MaxCustomRules
    /\ rules' = RulesAppend(rules, rule)
    /\ registered' = Append(registered, rule)
    /\ lastOp' = "add_rule"
    /\ ret' = None
    /\ runs' = 0
    /\ UNCHANGED <<heap, proc, diagram, results, added, nOps>>

\* ------------------------------------------------------------ specifications
\* The state right after the caller has constructed the element objects h, the
\* processes pr, the diagram dg and a validator for dg.
InitState(h, pr, dg) ==
    /\ heap = h
    /\ proc = pr
    /\ diagram = dg
    /\ rules = BuiltinRules
    /\ results = <<>>
    /\ lastOp = "init"
    /\ ret = None
    /\ added = [p \in Procs |-> [o \in DOMAIN h |-> 0]]
    /\ registered = <<>>
    /\ runs = 0
    /\ nOps = 0
    /\ lastArgs = <<>>
    /\ log = <<>>
    /\ pc = 0

\* The specifications of the validator and of the container lookups keep no
\* record of the calls' arguments.  Their calls are made by one caller, one after
\* the other: no validate() run is in progress when a call starts or ends.
Unrecorded == lastArgs' = <<>> /\ log' = <<>> /\ pc' = pc

\* Process(id="p1"), Process(id="p2")
EmptyProcs == [p \in Procs |-> NewProcess(IF p = "P1" THEN "p1" ELSE "p2")]

\* ---- Spec: the validator engine over a small diagram, with caller-registered
\* rules.  P1 is constructed holding a start and an end event, P2 empty, and the
\* diagram with no process.
EngineObjects ==
    <<Event("s1", START), Event("e1", END), Task("t1"), SequenceFlow("f1", "t1", "s1")>>

Init ==
    InitState(EngineObjects, [EmptyProcs EXCEPT !["P1"].events = <<1, 2>>], NewDiagram)

Next ==
    \/ Unrecorded /\ \E p \in Procs : AddProcess(p)
    \/ Unrecorded /\ \E p \in Procs, o \in DOMAIN heap : AddFlowObject(p, o)
    \/ Unrecorded /\ \E p \in Procs, o \in DOMAIN heap : AddConnectingObject(p, o)
    \/ Unrecorded /\ \E rule \in CustomRules : AddRule(rule)
    \/ Unrecorded /\ Validate

Spec == Init /\ [][Next]_vars

\* ---- SpecRules: the four built-in rules over diagrams that exercise each of
\* them.  A world is the set of objects the caller constructed together with the
\* processes and the diagram as constructed (Process(id=..., events=[...], ...),
\* BPMNDiagram(id=..., processes=[...])); the add_* calls then extend them.

\* Start and end events only: P1 holds one start event.
EventObjects == <<Event("s1", START), Event("s2", START), Event("e1", END)>>
EventWorld ==
    [heap |-> EventObjects,
     proc |-> [EmptyProcs EXCEPT !["P1"].events = <<1>>],
     diagram |-> [NewDiagram EXCEPT !.processes = <<"P1">>]]

\* P1: start event s1 -> task t1 -> end event e1; further flows and a task that
\* break the chain.
ChainObjects ==
    <<Event("s1", START), Task("t1"), Event("e1", END),
      SequenceFlow("f1", "s1", "t1"), SequenceFlow("f2", "t1", "e1"),
      SequenceFlow("f3", "t1", "s1"), SequenceFlow("f4", "e1", "t1"),
      SequenceFlow("f5", "nx1", "nx2"), Task("t0")>>
ChainWorld ==
    [heap |-> ChainObjects,
     proc |-> [EmptyProcs EXCEPT !["P1"].events = <<1, 3>>,
                                 !["P1"].tasks = <<2>>,
                                 !["P1"].sequence_flows = <<4, 5>>],
     diagram |-> [NewDiagram EXCEPT !.processes = <<"P1">>]]

\* Flow objects the connectivity rule has no check for; P1 is empty.
OtherObjects ==
    <<Gateway("g1", "unspecified"), SubProcess("sp1"),
      Event("i1", INTERMEDIATE), Event("b1", BOUNDARY),
      SequenceFlow("f1", "i1", "sp1"), SequenceFlow("f2", "b1", "g1")>>
OtherWorld ==
    [heap |-> OtherObjects, proc |-> EmptyProcs,
     diagram |-> [NewDiagram EXCEPT !.processes = <<"P1">>]]

\* P1: start event s1 -> gateway g1 -> end event e1; P2 (not in the diagram
\* yet): gateway g2 with no flow.  Both gateways are constructed with direction
\* d; the other flows lead into and out of the two gateways.
GatewayObjects(d) ==
    <<Event("s1", START), Gateway("g1", d), Event("e1", END),
      SequenceFlow("f1", "s1", "g1"), SequenceFlow("f2", "g1", "e1"),
      Gateway("g2", d),
      SequenceFlow("f3", "nx1", "g1"), SequenceFlow("f4", "g1", "nx2"),
      SequenceFlow("f5", "nx1", "g2"), SequenceFlow("f6", "g2", "nx2")>>
GatewayWorld(d) ==
    [heap |-> GatewayObjects(d),
     proc |-> [EmptyProcs EXCEPT !["P1"].events = <<1, 3>>,
                                 !["P1"].gateways = <<2>>,
                                 !["P1"].sequence_flows = <<4, 5>>,
                                 !["P2"].gateways = <<6>>],
     diagram |-> [NewDiagram EXCEPT !.processes = <<"P1">>]]

\* P1: start event s1 and task t0, no flow yet; the flow t0 -> s1 and an end event
\* are constructed but not added.
BackFlowObjects ==
    <<Event("s1", START), Task("t0"), SequenceFlow("f1", "t0", "s1"), Event("e1", END)>>
BackFlowWorld ==
    [heap |-> BackFlowObjects,
     proc |-> [EmptyProcs EXCEPT !["P1"].events = <<1>>, !["P1"].tasks = <<2>>],
     diagram |-> [NewDiagram EXCEPT !.processes = <<"P1">>]]

\* P1: a diverging gateway and nothing else; a flow out of it and a flow into it
\* are constructed but not added.
LoneGatewayObjects ==
    <<Gateway("g1", "diverging"), SequenceFlow("f1", "g1", "nx1"),
      SequenceFlow("f2", "nx2", "g1")>>
LoneGatewayWorld ==
    [heap |-> LoneGatewayObjects,
     proc |-> [EmptyProcs EXCEPT !["P1"].gateways = <<1>>],
     diagram |-> [NewDiagram EXCEPT !.processes = <<"P1">>]]

Worlds ==
    {EventWorld, ChainWorld, OtherWorld, BackFlowWorld, LoneGatewayWorld} \cup
    {GatewayWorld(d) : d \in GatewayDirections}

InitRules == \E w \in Worlds : InitState(w.heap, w.proc, w.diagram)

NextRules ==
    \/ Unrecorded /\ \E p \in Procs : AddProcess(p)
    \/ Unrecorded /\ \E p \in Procs, o \in DOMAIN heap : AddFlowObject(p, o)
    \/ Unrecorded /\ \E p \in Procs, o \in DOMAIN heap : AddConnectingObject(p, o)
    \/ Unrecorded /\ Validate

SpecRules == InitRules /\ [][NextRules]_vars

\* ---- SpecContainer: the containers.  One or two objects of every variant; the
\* diagram is constructed with one global data store and one global text
\* annotation (BPMNDiagram has no add operation for them), everything else is
\* empty.  The operations that dispatch on the class of their argument are given
\* every object; the others are given objects of the class their signature names.
ContainerObjects ==
    <<Event("ev1", START), Task("t1"), Gateway("g1", "unspecified"), SubProcess("sp1"),
      SequenceFlow("f1", "ev1", "t1"), Association("a1", "t1", "ta1"),
      DataObject("do1"), DataStore("ds1"), Group("gr1"), TextAnnotation("ta1"),
      Lane("l1"), Lane("l2"), MessageFlow("mf1", "t1", "t1"), Pool("po1"),
      DataStore("ds2"), TextAnnotation("ta2")>>

OfVariant(variants) == {o \in DOMAIN heap : heap[o].variant \in variants}

InitContainer ==
    InitState(ContainerObjects, EmptyProcs,
              [NewDiagram EXCEPT !.global_data_stores = <<15>>,
                                 !.global_text_annotations = <<16>>])

NextContainer ==
    \/ Unrecorded /\ \E p \in Procs, o \in DOMAIN heap : AddFlowObject(p, o)
    \/ Unrecorded /\ \E p \in Procs, o \in DOMAIN heap : AddConnectingObject(p, o)
    \/ Unrecorded /\ \E p \in Procs, o \in DOMAIN heap : AddArtifact(p, o)
    \/ Unrecorded /\ \E p \in Procs, l \in OfVariant({"Lane"}) : AddLane(p, l)
    \/ Unrecorded /\ \E sp \in OfVariant({"SubProcess"}), o \in OfVariant({"Task", "Event", "SubProcess"}) :
          SubProcessAddElement(sp, o)
    \/ Unrecorded /\ \E sp \in OfVariant({"SubProcess"}), f \in OfVariant({"SequenceFlow"}) :
          SubProcessAddSequenceFlow(sp, f)
    \/ Unrecorded /\ \E sp \in OfVariant({"SubProcess"}), e \in OfVariant({"Event"}) :
          SubProcessAddBoundaryEvent(sp, e)
    \/ Unrecorded /\ \E l \in OfVariant({"Lane"}), child \in OfVariant({"Lane"}) : LaneAddChildLane(l, child)
    \/ Unrecorded /\ \E po \in OfVariant({"Pool"}), l \in OfVariant({"Lane"}) : PoolAddLane(po, l)
    \/ Unrecorded /\ \E p \in Procs : AddProcess(p)
    \/ Unrecorded /\ \E po \in OfVariant({"Pool"}) : AddPool(po)
    \/ Unrecorded /\ \E mf \in OfVariant({"MessageFlow"}) : AddMessageFlow(mf)

SpecContainer == InitContainer /\ [][NextContainer]_vars

\* ---- SpecProcess: the add operations of one Process, with the arguments of
\* every call and the order of the successful calls recorded.  Both processes are
\* constructed empty; the calls are made on P1 with every constructed object.
Recorded(args) ==
    /\ lastArgs' = args
    /\ log' = IF ret' = None THEN Append(log, <<lastOp'>> \o args) ELSE log
    /\ pc' = pc

InitProcess == InitState(ContainerObjects, EmptyProcs, NewDiagram)

NextProcess ==
    \/ \E o \in DOMAIN heap : AddFlowObject("P1", o) /\ Recorded(<<"P1", o>>)
    \/ \E o \in DOMAIN heap : AddConnectingObject("P1", o) /\ Recorded(<<"P1", o>>)
    \/ \E o \in DOMAIN heap : AddArtifact("P1", o) /\ Recorded(<<"P1", o>>)
    \/ \E l \in OfVariant({"Lane"}) : AddLane("P1", l) /\ Recorded(<<"P1", l>>)

SpecProcess == InitProcess /\ [][NextProcess]_vars

\* ---- SpecLookup: lookups over elements that share ids.  Every object carries
\* id "x" or "y".  P1 is constructed with a sequence flow "y", P2 with an event "x",
\* a task "x" and a lane "y", the pool "y" with one lane "x", the diagram with its global artifacts;
\* processes, pool and message flows are then added.
SharedIdObjects ==
    <<Task("x"), SequenceFlow("y", "x", "x"), Event("x", START), Lane("y"),
      Event("y", END), DataObject("x"),
      Pool("y"), Lane("x"), MessageFlow("x", "x", "y"), MessageFlow("y", "y", "x"),
      DataStore("x"), TextAnnotation("y"), TextAnnotation("x"), Pool("x")>>

InitLookup ==
    InitState([SharedIdObjects EXCEPT ![7].lanes = <<8>>],
              [EmptyProcs EXCEPT !["P1"].sequence_flows = <<2>>,
                                 !["P2"].events = <<3>>, !["P2"].tasks = <<1>>,
                                 !["P2"].lanes = <<4>>],
              [NewDiagram EXCEPT !.global_data_stores = <<11>>,
                                 !.global_text_annotations = <<12, 13>>])

NextLookup ==
    \/ Unrecorded /\ \E p \in Procs, o \in DOMAIN heap : AddFlowObject(p, o)
    \/ Unrecorded /\ \E p \in Procs, o \in DOMAIN heap : AddArtifact(p, o)
    \/ Unrecorded /\ \E p \in Procs : AddProcess(p)
    \/ Unrecorded /\ \E po \in OfVariant({"Pool"}) : AddPool(po)
    \/ Unrecorded /\ \E mf \in OfVariant({"MessageFlow"}) : AddMessageFlow(mf)

SpecLookup == InitLookup /\ [][NextLookup]_vars

\* ---- SpecGateway: the configuration operations of Gateway.  One gateway left
\* at the default kind and one constructed with each kind; every call is recorded
\* with its arguments.
GatewayKindObjects ==
    <<Gateway("g0", "unspecified"),
      GatewayOfType("g1", EXCLUSIVE), GatewayOfType("g2", INCLUSIVE),
      GatewayOfType("g3", PARALLEL), GatewayOfType("g4", COMPLEX),
      GatewayOfType("g5", EVENT_BASED), GatewayOfType("g6", EXCLUSIVE_EVENT_BASED),
      GatewayOfType("g7", PARALLEL_EVENT_BASED)>>

FlowIds == {"f1", "f2"}

InitGateway == InitState(GatewayKindObjects, EmptyProcs, NewDiagram)

NextGateway ==
    \/ \E g \in OfVariant({"Gateway"}), flow_id \in FlowIds :
          SetDefaultFlow(g, flow_id) /\ Recorded(<<g, flow_id>>)
    \/ \E g \in OfVariant({"Gateway"}) : EnableProcessInstantiation(g) /\ Recorded(<<g>>)

SpecGateway == InitGateway /\ [][NextGateway]_vars

\* ---- SpecEvent: events, the sub-processes they get attached to and the
\* containers that hold them.  One event of each phase a caller constructs without
\* attaching it, a task, two sub-processes; every call is recorded with its
\* arguments.
EventPhaseObjects ==
    <<Event("ev1", START), Event("ev2", INTERMEDIATE), Event("ev3", END),
      Task("t1"), SubProcess("sp1"), SubProcess("sp2")>>

ActivityIds == {"t1", "sp2"}

InitEvent == InitState(EventPhaseObjects, EmptyProcs, NewDiagram)

NextEvent ==
    \/ \E e \in OfVariant({"Event"}), activity_id \in ActivityIds, interrupting \in BOOLEAN :
          AttachToActivity(e, activity_id, interrupting)
             /\ Recorded(<<e, activity_id, interrupting>>)
    \/ \E e \in OfVariant({"Event"}) :
          SetTimerTrigger(e, "PT5M") /\ Recorded(<<e, "PT5M">>)
    \/ \E e \in OfVariant({"Event"}) :
          SetMessageTrigger(e, "m1") /\ Recorded(<<e, "m1">>)
    \/ \E e \in OfVariant({"Event"}) :
          SetErrorTrigger(e, "E42") /\ Recorded(<<e, "E42">>)
    \/ \E e \in OfVariant({"Event"}) :
          SetSignalTrigger(e, "s1") /\ Recorded(<<e, "s1">>)
    \/ \E sp \in OfVariant({"SubProcess"}), e \in OfVariant({"Event"}) :
          SubProcessAddBoundaryEvent(sp, e) /\ Recorded(<<sp, e>>)
    \/ \E sp \in OfVariant({"SubProcess"}), e \in OfVariant({"Event"}) :
          SubProcessAddElement(sp, e) /\ Recorded(<<sp, e>>)
    \/ \E e \in OfVariant({"Event"}) : AddFlowObject("P1", e) /\ Recorded(<<"P1", e>>)

SpecEvent == InitEvent /\ [][NextEvent]_vars

\* ---- SpecTask: the multi-instance configuration of Task.  One task constructed
\* with no marker and one constructed with markers=[ActivityMarker.LOOP]; every
\* call is recorded with its arguments.
TaskObjects == <<Task("t1"), [Task("t2") EXCEPT !.markers = <<LOOP>>]>>

Collections == {"orders", "lines"}
ElementVariables == {"item", "order"}

InitTask == InitState(TaskObjects, EmptyProcs, NewDiagram)

NextTask ==
    \/ \E t \in OfVariant({"Task"}), collection \in Collections,
          element_variable \in ElementVariables :
          SetMultiInstanceParallel(t, collection, element_variable)
             /\ Recorded(<<t, collection, element_variable>>)
    \/ \E t \in OfVariant({"Task"}), collection \in Collections,
          element_variable \in ElementVariables :
          SetMultiInstanceSequential(t, collection, element_variable)
             /\ Recorded(<<t, collection, element_variable>>)

SpecTask == InitTask /\ [][NextTask]_vars

\* ---- SpecDangling: references to ids no element carries.  The diagram is
\* constructed with two processes that validate clean, P1: s1 -> t1 -> e1 and
\* P2: s2 -> g1 -> e2; the caller has further constructed a sequence flow and a
\* message flow between the ids "nx1" and "nx2", an intermediate event, and a pool
\* with process_ref "nx5", and attaches the event to "nx3" and sets the default
\* flow of g1 to "nx4".
DanglingObjects ==
    <<Event("s1", START), Task("t1"), Event("e1", END),
      SequenceFlow("f1", "s1", "t1"), SequenceFlow("f2", "t1", "e1"),
      Event("s2", START), Gateway("g1", "unspecified"), Event("e2", END),
      SequenceFlow("f3", "s2", "g1"), SequenceFlow("f4", "g1", "e2"),
      SequenceFlow("fd", "nx1", "nx2"), MessageFlow("mfd", "nx1", "nx2"),
      Event("b1", INTERMEDIATE), [Pool("po1") EXCEPT !.process_ref = "nx5"]>>

InitDangling ==
    InitState(DanglingObjects,
              [EmptyProcs EXCEPT !["P1"].events = <<1, 3>>, !["P1"].tasks = <<2>>,
                                 !["P1"].sequence_flows = <<4, 5>>,
                                 !["P2"].events = <<6, 8>>, !["P2"].gateways = <<7>>,
                                 !["P2"].sequence_flows = <<9, 10>>],
              [NewDiagram EXCEPT !.processes = <<"P1", "P2">>])

NextDangling ==
    \/ \E p \in Procs : AddConnectingObject(p, 11) /\ Recorded(<<p, 11>>)
    \/ \E mf \in OfVariant({"MessageFlow"}) : AddMessageFlow(mf) /\ Recorded(<<mf>>)
    \/ \E interrupting \in BOOLEAN :
          AttachToActivity(13, "nx3", interrupting) /\ Recorded(<<13, "nx3", interrupting>>)
    \/ \E p \in Procs : AddFlowObject(p, 13) /\ Recorded(<<p, 13>>)
    \/ \E g \in OfVariant({"Gateway"}) : SetDefaultFlow(g, "nx4") /\ Recorded(<<g, "nx4">>)
    \/ \E po \in OfVariant({"Pool"}) : AddPool(po) /\ Recorded(<<po>>)
    \/ Validate /\ Recorded(<<>>)

SpecDangling == InitDangling /\ [][NextDangling]_vars

\* ---- SpecGatewayConstructed: gateways as any constructor call leaves them, and
\* the gateway operations on them.  The caller constructs one gateway, passing no
\* kind or any of the seven kinds, and no default_flow or one of the flow ids.
InitGatewayConstructed ==
    \E gateway_type \in GatewayType \cup {None}, default_flow \in FlowIds \cup {None} :
        InitState(<<IF gateway_type = None
                    THEN [Gateway("g1", "unspecified") EXCEPT !.default_flow = default_flow]
                    ELSE GatewayWithDefaultFlow("g1", gateway_type, default_flow)>>,
                  EmptyProcs, NewDiagram)

NextGatewayConstructed ==
    \/ \E g \in OfVariant({"Gateway"}), flow_id \in FlowIds :
          SetDefaultFlow(g, flow_id) /\ Recorded(<<g, flow_id>>)
    \/ \E g \in OfVariant({"Gateway"}) : EnableProcessInstantiation(g) /\ Recorded(<<g>>)
    \/ \E g \in OfVariant({"Gateway"}) : SetAsDiverging(g) /\ Recorded(<<g>>)
    \/ \E g \in OfVariant({"Gateway"}) : SetAsConverging(g) /\ Recorded(<<g>>)
    \/ \E g \in OfVariant({"Gateway"}) : SetAsMixed(g) /\ Recorded(<<g>>)

SpecGatewayConstructed == InitGatewayConstructed /\ [][NextGatewayConstructed]_vars

\* ---- SpecLifetime: the whole public interface over a graph that already holds
\* elements.  P1 is constructed as s1 -> t1 -> e1, P2 with the gateway g1, the
\* diagram with P1 and the message flow mf0; a data object, a lane, a second
\* message flow and a pool are constructed but not added.  The add operations are
\* called on P1 and on the diagram, the setters on the elements, the lookups with
\* an id that is carried and one that is not.
LifetimeObjects ==
    <<Event("s1", START), Task("t1"), Event("e1", END),
      SequenceFlow("f1", "s1", "t1"), SequenceFlow("f2", "t1", "e1"),
      Gateway("g1", "unspecified"), DataObject("do1"), Lane("l1"),
      MessageFlow("mf0", "t1", "g1"), MessageFlow("mf1", "g1", "t1"), Pool("po1")>>

LookupArgs == {"t1", "nx1"}

InitLifetime ==
    InitState(LifetimeObjects,
              [EmptyProcs EXCEPT !["P1"].events = <<1, 3>>, !["P1"].tasks = <<2>>,
                                 !["P1"].sequence_flows = <<4, 5>>,
                                 !["P2"].gateways = <<6>>],
              [NewDiagram EXCEPT !.processes = <<"P1">>, !.message_flows = <<9>>])

\* The arguments the class-dispatching add operations are called with: for each,
\* one it accepts and the message flow mf1, which they all reject.
NextLifetime ==
    \/ Unrecorded /\ \E o \in {2, 10} : AddFlowObject("P1", o)
    \/ Unrecorded /\ \E o \in {4, 10} : AddConnectingObject("P1", o)
    \/ Unrecorded /\ \E o \in {7, 10} : AddArtifact("P1", o)
    \/ Unrecorded /\ \E l \in OfVariant({"Lane"}) : AddLane("P1", l)
    \/ Unrecorded /\ \E p \in Procs : AddProcess(p)
    \/ Unrecorded /\ \E po \in OfVariant({"Pool"}) : AddPool(po)
    \/ Unrecorded /\ \E mf \in OfVariant({"MessageFlow"}) : AddMessageFlow(mf)
    \/ Unrecorded /\ \E e \in OfVariant({"Event"}) : AttachToActivity(e, "t1", TRUE)
    \/ Unrecorded /\ \E g \in OfVariant({"Gateway"}) : SetDefaultFlow(g, "f1")
    \/ Unrecorded /\ \E t \in OfVariant({"Task"}) :
          SetMultiInstanceParallel(t, "orders", "item")
    \/ Unrecorded /\ \E p \in Procs, x \in LookupArgs : GetElementById(p, x)
    \/ Unrecorded /\ \E x \in LookupArgs : DiagramGetElementByIdCall(x)
    \/ Unrecorded /\ \E p \in Procs : CountElements(p)
    \/ Unrecorded /\ CountAllElements
    \/ Unrecorded /\ Validate

SpecLifetime == InitLifetime /\ [][NextLifetime]_vars

\* ---- SpecConcurrent: one caller runs validate() while another caller adds
\* elements to a process of the diagram.  P1, in the diagram, is constructed with
\* the task t1 and the flow t1 -> s1; the start event s1, the end event e1 and the
\* gateway g1 are constructed but not added.
ConcurrentObjects ==
    <<Event("s1", START), Event("e1", END), Task("t1"), SequenceFlow("f1", "t1", "s1"),
      Gateway("g1", "unspecified")>>

InitConcurrent ==
    InitState(ConcurrentObjects,
              [EmptyProcs EXCEPT !["P1"].tasks = <<3>>, !["P1"].sequence_flows = <<4>>],
              [NewDiagram EXCEPT !.processes = <<"P1">>])

\* The findings validate() would report on the graph as it is now, run alone.
FindingsNow == RunRules(rules, 1, ClearResults(results)).results

\* The history a step of the mutating caller leaves: a successful add that takes
\* place while a validate() run is in progress is recorded with the position of the
\* run and the findings of the graph before the add.
Interleaved ==
    /\ lastArgs' = <<>>
    /\ pc' = pc
    /\ log' = IF pc # 0 /\ ret' = None
              THEN Append(log, [op |-> lastOp', at |-> pc, before |-> FindingsNow])
              ELSE log

NextConcurrent ==
    \/ ValidateClear /\ lastArgs' = <<>> /\ log' = <<>>
    \/ ValidateRule /\ UNCHANGED <<lastArgs, log>>
    \/ ValidateFinish /\ UNCHANGED <<lastArgs, log>>
    \/ \E o \in DOMAIN heap : AddFlowObject("P1", o) /\ Interleaved
    \/ \E o \in DOMAIN heap : AddConnectingObject("P1", o) /\ Interleaved

SpecConcurrent == InitConcurrent /\ [][NextConcurrent]_vars

\* ------------------------------------------------------------------ claims
\* Positions of the buffer, by severity and by rule.
SeverityPositions(severity) == {i \in DOMAIN results : results[i].severity = severity}
RulePositions(rule) == {i \in DOMAIN results : results[i].rule_name = rule}
\* How many entries of the buffer equal the finding f.
CountResults(f) == Cardinality({i \in DOMAIN results : results[i] = f})
\* validate() ran last and returned (it did not raise).
ValidateReturned == lastOp = "validate" /\ ret \in {"True", "False"}

\* C1: validate() returns true iff the buffer it has just built holds no finding of
\* severity error (warnings and info never fail it); right after it returns,
\* has_errors() is the negation of the returned value and has_warnings() is true
\* exactly when the buffer holds a warning.
C1_ValidateVerdict ==
    ValidateReturned =>
        /\ (ret = "True") <=> (SeverityPositions(ERROR) = {})
        /\ has_errors <=> (ret = "False")
        /\ has_warnings <=> (SeverityPositions(WARNING) # {})

\* C1 witness: validate() returned true over a buffer holding a warning and an info.
C1_Witness ==
    /\ ValidateReturned /\ ret = "True"
    /\ SeverityPositions(WARNING) # {}
    /\ SeverityPositions(INFO) # {}

\* The findings of every rule of rs on the diagram, concatenated in list order.
RECURSIVE FindingsInRuleOrder(_)
FindingsInRuleOrder(rs) ==
    IF rs = <<>> THEN <<>>
    ELSE RuleValidate(Head(rs)) \o FindingsInRuleOrder(Tail(rs))

\* C2: the rule list is the four built-ins followed by the registered rules in
\* registration order, and after validate() returns the buffer is exactly the
\* concatenation, in that order, of every rule's findings on the diagram: no rule
\* is skipped after an error finding and nothing of an earlier run remains.
C2_TotalAggregation ==
    /\ rules = BuiltinRules \o registered
    /\ ValidateReturned => results = FindingsInRuleOrder(rules)

\* C2 witness: second validate() in a row, two rules registered, and the buffer
\* holds an error of the first rule followed by a finding of the last rule.
C2_Witness ==
    /\ ValidateReturned /\ runs = 2
    /\ Len(registered) = 2 /\ registered[1] # registered[2]
    /\ \E i, j \in DOMAIN results :
          /\ i < j
          /\ results[i].severity = ERROR /\ results[i].rule_name = rules[1]
          /\ results[j].rule_name = rules[Len(rules)]

\* C3: a validate() call that directly follows a validate() call (no mutation of
\* the diagram or of the rule list in between) leaves the same buffer and the same
\* outcome as the first one.
C3_Idempotent ==
    [][(lastOp = "validate" /\ lastOp' = "validate") =>
          (results' = results /\ ret' = ret)]_vars

\* C3 witness: two validate() calls in a row over a diagram with findings.
C3_Witness == lastOp = "validate" /\ runs = 2 /\ Len(results) >= 2 /\ ret = "False"

\* ---- the built-in rules (SpecRules)
\* The diagram's process list, its positions, and the positions holding a process
\* with id x (one Process object appended twice is visited twice by every rule).
DP == diagram.processes
EntriesWithId(x) == {k \in DOMAIN DP : proc[DP[k]].id = x}
ProcIds == {proc[p].id : p \in Procs}
ElementIds == {heap[o].id : o \in DOMAIN heap}

\* Positions of p.events holding an event of the given phase.
EventPositions(p, phase) ==
    {j \in DOMAIN proc[p].events : heap[proc[p].events[j]].event_type = phase}
\* Fan-in / fan-out of id x over the sequence flows of process p.
FanIn(p, x) ==
    Cardinality({j \in DOMAIN proc[p].sequence_flows :
                    heap[proc[p].sequence_flows[j]].target_ref = x})
FanOut(p, x) ==
    Cardinality({j \in DOMAIN proc[p].sequence_flows :
                    heap[proc[p].sequence_flows[j]].source_ref = x})

NoStartFinding(x) ==
    ValidationResult(ERROR, x, "Process",
                     <<"Process must have at least one start event">>, "start_event_rule")
ManyStartFinding(x, n) ==
    ValidationResult(WARNING, x, "Process", <<"Process has", n, "start events">>,
                     "start_event_rule")
NoEndFinding(x) ==
    ValidationResult(WARNING, x, "Process",
                     <<"Process should have at least one end event">>, "end_event_rule")

\* C6: start-event rule.  For every process of the diagram, whatever the other
\* processes hold: one error on the process id when it has no start event, one
\* warning naming the count when it has more than one, nothing when it has one.
C6_StartEventRule ==
    ValidateReturned =>
        /\ \A k \in DOMAIN DP :
              LET x == proc[DP[k]].id
                  n == Cardinality(EventPositions(DP[k], START))
              IN  /\ n = 0 => CountResults(NoStartFinding(x)) = Cardinality(EntriesWithId(x))
                  /\ n > 1 => CountResults(ManyStartFinding(x, n)) = Cardinality(EntriesWithId(x))
                  /\ n = 1 => \A i \in RulePositions("start_event_rule") :
                                  results[i].element_id # x
        /\ Cardinality(RulePositions("start_event_rule")) =
              Cardinality({k \in DOMAIN DP : Cardinality(EventPositions(DP[k], START)) # 1})

\* C6 witness: the diagram holds a process without start event and a process with
\* two, and validate() has reported the error on the one and the warning on the other.
C6_Witness ==
    /\ ValidateReturned
    /\ \E k1, k2 \in DOMAIN DP :
          /\ Cardinality(EventPositions(DP[k1], START)) = 0
          /\ Cardinality(EventPositions(DP[k2], START)) = 2
          /\ CountResults(NoStartFinding(proc[DP[k1]].id)) = 1
          /\ CountResults(ManyStartFinding(proc[DP[k2]].id, 2)) = 1

\* C7: end-event rule.  For every process of the diagram: one warning (never an
\* error) on the process id when it has no end event, nothing otherwise; a diagram
\* whose only findings are missing end events validates to true.
C7_EndEventRule ==
    ValidateReturned =>
        /\ \A k \in DOMAIN DP :
              LET x == proc[DP[k]].id IN
              IF EventPositions(DP[k], END) = {}
              THEN CountResults(NoEndFinding(x)) = Cardinality(EntriesWithId(x))
              ELSE \A i \in RulePositions("end_event_rule") : results[i].element_id # x
        /\ \A i \in RulePositions("end_event_rule") : results[i].severity = WARNING
        /\ Cardinality(RulePositions("end_event_rule")) =
              Cardinality({k \in DOMAIN DP : EventPositions(DP[k], END) = {}})
        /\ (results # <<>> /\ RulePositions("end_event_rule") = DOMAIN results)
              => ret = "True"

\* C7 witness: validate() returned true for a diagram whose only finding is the
\* missing end event of its process.
C7_Witness ==
    /\ ValidateReturned /\ ret = "True"
    /\ Len(DP) = 1
    /\ results = <<NoEndFinding(proc[DP[1]].id)>>

StartIncomingFinding(x) ==
    ValidationResult(ERROR, x, "StartEvent",
                     <<"Start events cannot have incoming sequence flows">>,
                     "sequence_flow_rule")
EndOutgoingFinding(x) ==
    ValidationResult(ERROR, x, "EndEvent",
                     <<"End events cannot have outgoing sequence flows">>,
                     "sequence_flow_rule")
IsolatedTaskFinding(x) ==
    ValidationResult(WARNING, x, "Task",
                     <<"Task is not connected to any sequence flows">>,
                     "sequence_flow_rule")

\* The entries <<k, j>> (process position k of the diagram, position j of that
\* process's collection coll) whose element carries id x and satisfies Hit.
Entries(coll, x, Hit(_, _)) ==
    UNION {{<<k, j>> : j \in {j2 \in DOMAIN proc[DP[k]][coll] :
                                 /\ heap[proc[DP[k]][coll][j2]].id = x
                                 /\ Hit(DP[k], proc[DP[k]][coll][j2])}}
           : k \in DOMAIN DP}

StartWithIncoming(p, o) == heap[o].event_type = START /\ FanIn(p, heap[o].id) > 0
EndWithOutgoing(p, o) == heap[o].event_type = END /\ FanOut(p, heap[o].id) > 0
Isolated(p, o) == FanIn(p, heap[o].id) = 0 /\ FanOut(p, heap[o].id) = 0

\* Elements the connectivity rule has no check for.
Unchecked(o) ==
    \/ heap[o].variant \in {"Gateway", "SubProcess"}
    \/ heap[o].variant = "Event" /\ heap[o].event_type \in {INTERMEDIATE, BOUNDARY}

\* C8: connectivity rule.  With fan-in / fan-out taken over the process's own
\* sequence flows: one error per start event with incoming flows (however many),
\* one error per end event with outgoing flows, one warning per task with neither,
\* and nothing else; gateways, sub-processes, intermediate and boundary events get
\* no finding from this rule.
C8_SequenceFlowRule ==
    ValidateReturned =>
        /\ \A x \in ElementIds :
              /\ CountResults(StartIncomingFinding(x)) =
                    Cardinality(Entries("events", x, StartWithIncoming))
              /\ CountResults(EndOutgoingFinding(x)) =
                    Cardinality(Entries("events", x, EndWithOutgoing))
              /\ CountResults(IsolatedTaskFinding(x)) =
                    Cardinality(Entries("tasks", x, Isolated))
        /\ \A i \in RulePositions("sequence_flow_rule") :
              \E x \in ElementIds :
                 results[i] \in {StartIncomingFinding(x), EndOutgoingFinding(x),
                                 IsolatedTaskFinding(x)}
        /\ \A o \in DOMAIN heap :
              (Unchecked(o) /\ \A o2 \in DOMAIN heap : heap[o2].id = heap[o].id => Unchecked(o2))
                 => \A i \in RulePositions("sequence_flow_rule") :
                       results[i].element_id # heap[o].id

\* C8 witness: a start event of a process of the diagram has two incoming flows and
\* validate() has reported exactly one error on it.
C8_Witness ==
    /\ ValidateReturned
    /\ \E k \in DOMAIN DP : \E j \in EventPositions(DP[k], START) :
          LET x == heap[proc[DP[k]].events[j]].id IN
          /\ FanIn(DP[k], x) = 2
          /\ CountResults(StartIncomingFinding(x)) = 1

\* C8 second witness part: a gateway with a flow into it sits in a validated process.
C8_WitnessUnchecked ==
    /\ ValidateReturned
    /\ \E k \in DOMAIN DP : \E j \in DOMAIN proc[DP[k]].gateways :
          FanIn(DP[k], heap[proc[DP[k]].gateways[j]].id) > 0

GatewayNoIncomingFinding(x) ==
    ValidationResult(ERROR, x, "Gateway",
                     <<"Gateway must have at least one incoming sequence flow">>,
                     "gateway_rule")
GatewayNoOutgoingFinding(x) ==
    ValidationResult(ERROR, x, "Gateway",
                     <<"Gateway must have at least one outgoing sequence flow">>,
                     "gateway_rule")
DivergingFinding(x) ==
    ValidationResult(WARNING, x, "Gateway",
                     <<"Diverging gateway should have multiple outgoing flows">>,
                     "gateway_rule")
ConvergingFinding(x) ==
    ValidationResult(WARNING, x, "Gateway",
                     <<"Converging gateway should have multiple incoming flows">>,
                     "gateway_rule")

NoFanIn(p, g) == FanIn(p, heap[g].id) = 0
NoFanOut(p, g) == FanOut(p, heap[g].id) = 0
DivergingLow(p, g) == heap[g].gateway_direction = "diverging" /\ FanOut(p, heap[g].id) < 2
ConvergingLow(p, g) == heap[g].gateway_direction = "converging" /\ FanIn(p, heap[g].id) < 2
AnyGateway(p, g) == TRUE

\* C9: gateway rule.  For every gateway of a process's gateways collection, each
\* condition on its own: error when fan-in is 0, error when fan-out is 0, warning
\* when diverging with fan-out < 2, warning when converging with fan-in < 2, and
\* nothing else; a mixed or unspecified gateway gets no warning.
C9_GatewayRule ==
    ValidateReturned =>
        /\ \A x \in ElementIds :
              /\ CountResults(GatewayNoIncomingFinding(x)) =
                    Cardinality(Entries("gateways", x, NoFanIn))
              /\ CountResults(GatewayNoOutgoingFinding(x)) =
                    Cardinality(Entries("gateways", x, NoFanOut))
              /\ CountResults(DivergingFinding(x)) =
                    Cardinality(Entries("gateways", x, DivergingLow))
              /\ CountResults(ConvergingFinding(x)) =
                    Cardinality(Entries("gateways", x, ConvergingLow))
        /\ \A i \in RulePositions("gateway_rule") :
              \E x \in ElementIds :
                 results[i] \in {GatewayNoIncomingFinding(x), GatewayNoOutgoingFinding(x),
                                 DivergingFinding(x), ConvergingFinding(x)}
        /\ \A g \in DOMAIN heap :
              (/\ heap[g].variant = "Gateway"
               /\ \A g2 \in DOMAIN heap :
                     (heap[g2].variant = "Gateway" /\ heap[g2].id = heap[g].id)
                        => heap[g2].gateway_direction \in {"mixed", "unspecified"})
                 => \A i \in RulePositions("gateway_rule") :
                       results[i].element_id = heap[g].id => results[i].severity = ERROR

\* C9 witness: a diverging gateway without any flow sits once in the validated
\* diagram and has received both errors and the diverging warning.
C9_Witness ==
    /\ ValidateReturned
    /\ \E k \in DOMAIN DP : \E j \in DOMAIN proc[DP[k]].gateways :
          LET g == proc[DP[k]].gateways[j] IN
          /\ heap[g].gateway_direction = "diverging"
          /\ NoFanIn(DP[k], g) /\ NoFanOut(DP[k], g)
          /\ Cardinality(Entries("gateways", heap[g].id, AnyGateway)) = 1
          /\ CountResults(GatewayNoIncomingFinding(heap[g].id)) = 1
          /\ CountResults(GatewayNoOutgoingFinding(heap[g].id)) = 1
          /\ CountResults(DivergingFinding(heap[g].id)) = 1

\* Scenario A: the diagram holds one process, which has no flow object and no flow.
ScenarioA ==
    /\ Len(DP) = 1
    /\ \A coll \in {"events", "tasks", "gateways", "subprocesses",
                     "sequence_flows", "associations"} : proc[DP[1]][coll] = <<>>

\* C10: Scenario A yields exactly one error (missing start event), exactly one
\* warning (missing end event) and nothing else; validate() returns false and
\* has_errors() is true.
C10_ScenarioA ==
    (ValidateReturned /\ ScenarioA) =>
        /\ Len(results) = 2
        /\ SeverityPositions(ERROR) # {} /\ SeverityPositions(WARNING) # {}
        /\ CountResults(NoStartFinding(proc[DP[1]].id)) = 1
        /\ CountResults(NoEndFinding(proc[DP[1]].id)) = 1
        /\ ret = "False"
        /\ has_errors

\* C10 witness: validate() has run on Scenario A.
C10_Witness == ValidateReturned /\ ScenarioA /\ Len(results) = 2 /\ runs = 1

\* The <<source_ref, target_ref>> pairs of the sequence flows of process p.
FlowPairs(p) ==
    {<<heap[proc[p].sequence_flows[j]].source_ref, heap[proc[p].sequence_flows[j]].target_ref>>
        : j \in DOMAIN proc[p].sequence_flows}
\* The ids of the elements of collection coll of process p.
IdsOf(p, coll) == {heap[proc[p][coll][j]].id : j \in DOMAIN proc[p][coll]}

\* Scenario B: the single process holds start event s1, task t1, end event e1 and
\* the two sequence flows s1 -> t1 and t1 -> e1, and nothing else that is validated.
ScenarioB ==
    /\ Len(DP) = 1
    /\ LET p == DP[1] IN
       /\ Len(proc[p].events) = 2 /\ Len(proc[p].tasks) = 1
       /\ proc[p].gateways = <<>> /\ proc[p].subprocesses = <<>>
       /\ IdsOf(p, "events") = {"s1", "e1"} /\ IdsOf(p, "tasks") = {"t1"}
       /\ \A j \in DOMAIN proc[p].events :
             heap[proc[p].events[j]].event_type =
                IF heap[proc[p].events[j]].id = "s1" THEN START ELSE END
       /\ Len(proc[p].sequence_flows) = 2
       /\ FlowPairs(p) = {<<"s1", "t1">>, <<"t1", "e1">>}

\* C11: Scenario B yields no error and no warning finding from the four built-in
\* rules, and validate() returns true.
C11_ScenarioB ==
    (ValidateReturned /\ ScenarioB) =>
        /\ SeverityPositions(ERROR) = {}
        /\ SeverityPositions(WARNING) = {}
        /\ ret = "True"

\* C11 witness: validate() has run on Scenario B and left an empty buffer.
C11_Witness == ValidateReturned /\ ScenarioB /\ results = <<>> /\ runs = 1

\* Scenario C as the claim words it: the single process contains a diverging
\* gateway with exactly one outgoing sequence flow (here: that and nothing else).
ScenarioCBare ==
    /\ Len(DP) = 1
    /\ LET p == DP[1] IN
       /\ proc[p].events = <<>> /\ proc[p].tasks = <<>> /\ proc[p].subprocesses = <<>>
       /\ Len(proc[p].gateways) = 1 /\ Len(proc[p].sequence_flows) = 1
       /\ heap[proc[p].gateways[1]].gateway_direction = "diverging"
       /\ heap[proc[p].sequence_flows[1]].source_ref = heap[proc[p].gateways[1]].id
       /\ heap[proc[p].sequence_flows[1]].target_ref # heap[proc[p].gateways[1]].id

\* C12 as claimed: validating Scenario C yields exactly one warning, the diverging
\* warning on the gateway, and no error.
C12_ScenarioC ==
    (ValidateReturned /\ ScenarioCBare) =>
        /\ Cardinality(SeverityPositions(WARNING)) = 1
        /\ CountResults(DivergingFinding(heap[proc[DP[1]].gateways[1]].id)) = 1
        /\ SeverityPositions(ERROR) = {}

\* Scenario C inside a well-formed process: start event s -> gateway g -> end
\* event e, g diverging, the two flows and nothing else.
ScenarioCChain ==
    /\ Len(DP) = 1
    /\ LET p == DP[1] IN
       /\ Len(proc[p].events) = 2 /\ Len(proc[p].gateways) = 1
       /\ proc[p].tasks = <<>> /\ proc[p].subprocesses = <<>>
       /\ heap[proc[p].gateways[1]].gateway_direction = "diverging"
       /\ \E j1, j2 \in DOMAIN proc[p].events :
             LET s == heap[proc[p].events[j1]]
                 e == heap[proc[p].events[j2]]
                 g == heap[proc[p].gateways[1]]
             IN  /\ s.event_type = START /\ e.event_type = END
                 /\ Cardinality({s.id, e.id, g.id}) = 3
                 /\ Len(proc[p].sequence_flows) = 2
                 /\ FlowPairs(p) = {<<s.id, g.id>>, <<g.id, e.id>>}

\* C12 amended: for a diverging gateway g with exactly one outgoing flow in the
\* single process of the diagram, the gateway rule emits the diverging warning on g
\* once and no other warning on g, and an error on g exactly when g has no incoming
\* flow; when the process is the chain start -> g -> end, that warning is the only
\* finding of the whole validation and validate() returns true; when the process
\* holds nothing but g and its outgoing flow, the buffer is the start-event error,
\* the end-event warning, the gateway's no-incoming error and the diverging warning.
C12_ScenarioCInContext ==
    ValidateReturned =>
        /\ (Len(DP) = 1 /\ Len(proc[DP[1]].gateways) = 1
               /\ heap[proc[DP[1]].gateways[1]].gateway_direction = "diverging"
               /\ FanOut(DP[1], heap[proc[DP[1]].gateways[1]].id) = 1)
              => LET x == heap[proc[DP[1]].gateways[1]].id IN
                 /\ CountResults(DivergingFinding(x)) = 1
                 /\ CountResults(ConvergingFinding(x)) = 0
                 /\ CountResults(GatewayNoOutgoingFinding(x)) = 0
                 /\ CountResults(GatewayNoIncomingFinding(x)) =
                       (IF FanIn(DP[1], x) = 0 THEN 1 ELSE 0)
        /\ ScenarioCChain
              => /\ results = <<DivergingFinding(heap[proc[DP[1]].gateways[1]].id)>>
                 /\ ret = "True"
        /\ ScenarioCBare
              => LET x == heap[proc[DP[1]].gateways[1]].id IN
                 /\ results = <<NoStartFinding(proc[DP[1]].id), NoEndFinding(proc[DP[1]].id),
                                GatewayNoIncomingFinding(x), DivergingFinding(x)>>
                 /\ ret = "False"

\* C12 witness: validate() has run on the chain start -> diverging gateway -> end.
C12_Witness == ValidateReturned /\ ScenarioCChain /\ Len(results) = 1

\* Scenario D: the single process holds start event s1, task t0 and the one
\* sequence flow t0 -> s1.
ScenarioD ==
    /\ Len(DP) = 1
    /\ LET p == DP[1] IN
       /\ Len(proc[p].events) = 1 /\ Len(proc[p].tasks) = 1
       /\ proc[p].gateways = <<>> /\ proc[p].subprocesses = <<>>
       /\ heap[proc[p].events[1]].id = "s1" /\ heap[proc[p].events[1]].event_type = START
       /\ heap[proc[p].tasks[1]].id = "t0"
       /\ Len(proc[p].sequence_flows) = 1
       /\ FlowPairs(p) = {<<"t0", "s1">>}

\* C13: Scenario D yields exactly one error finding; it is on s1 and comes from the
\* connectivity rule, and no other rule contributes an error.
C13_ScenarioD ==
    (ValidateReturned /\ ScenarioD) =>
        /\ Cardinality(SeverityPositions(ERROR)) = 1
        /\ \A i \in SeverityPositions(ERROR) :
              /\ results[i].element_id = "s1"
              /\ results[i].rule_name = "sequence_flow_rule"
        /\ CountResults(StartIncomingFinding("s1")) = 1

\* C13 witness: the flow t0 -> s1 was added by add_connecting_object and validate()
\* has then reported an error.
C13_Witness ==
    /\ ValidateReturned /\ ScenarioD /\ nOps = 1 /\ ret = "False"
    /\ SeverityPositions(ERROR) # {}

\* ---- the containers (SpecContainer)
\* How often the reference o occurs in the sequence s.
Occurrences(s, o) == Cardinality({i \in DOMAIN s : s[i] = o})

Range(s) == {s[i] : i \in DOMAIN s}
Children(o) ==
    Range(heap[o].elements) \cup Range(heap[o].sequence_flows) \cup
    Range(heap[o].boundary_events) \cup Range(heap[o].lanes) \cup
    Range(heap[o].child_lanes)
RECURSIVE Nested(_)
Nested(S) ==
    LET T == S \cup UNION {Children(o) : o \in S} IN
    IF T = S THEN S ELSE Nested(T)

\* The elements under a Process and under the diagram.
UnderProcess(p) == Nested(Range(get_all_elements(p)))
UnderDiagram ==
    UNION {UnderProcess(p) : p \in Range(diagram.processes)} \cup
    Nested(Range(diagram.pools) \cup Range(diagram.message_flows) \cup
           Range(diagram.global_data_stores) \cup Range(diagram.global_text_annotations))

LookupIds == ElementIds \cup ProcIds \cup {"nx1"}

\* C5 as claimed: for a Process and for the diagram, get_element_by_id(x) returns
\* no match iff no element under that scope (nested ones included) carries id x,
\* and a returned element carries id x.
C5_LookupFindsNested ==
    \A x \in LookupIds :
        /\ \A p \in Procs :
              /\ (ProcessGetElementById(p, x) = NoElement)
                    <=> (\A o \in UnderProcess(p) : heap[o].id # x)
              /\ ProcessGetElementById(p, x) # NoElement
                    => heap[ProcessGetElementById(p, x)].id = x
        /\ (DiagramGetElementById(x) = NoElement)
              <=> (\A o \in UnderDiagram : heap[o].id # x)
        /\ DiagramGetElementById(x) # NoElement
              => heap[DiagramGetElementById(x)].id = x

\* ---- the typed insertions (SpecProcess)
\* The collection each insertion operation is documented to fill for each variant.
ExpectedCollection(op, variant) ==
    CASE op = "add_flow_object" /\ variant = "Event" -> "events"
      [] op = "add_flow_object" /\ variant = "Task" -> "tasks"
      [] op = "add_flow_object" /\ variant = "Gateway" -> "gateways"
      [] op = "add_flow_object" /\ variant = "SubProcess" -> "subprocesses"
      [] op = "add_connecting_object" /\ variant = "SequenceFlow" -> "sequence_flows"
      [] op = "add_connecting_object" /\ variant = "Association" -> "associations"
      [] op = "add_artifact" /\ variant = "DataObject" -> "data_objects"
      [] op = "add_artifact" /\ variant = "DataStore" -> "data_stores"
      [] op = "add_artifact" /\ variant = "Group" -> "groups"
      [] op = "add_artifact" /\ variant = "TextAnnotation" -> "text_annotations"
      [] OTHER -> None

TypedInsertions == {"add_flow_object", "add_connecting_object", "add_artifact"}

\* C14: a call of add_flow_object / add_connecting_object / add_artifact with an
\* element of a variant the operation recognises appends it to the one collection
\* of that variant and changes nothing else; with any other variant it fails with
\* ValueError (the type-mismatch error) and changes no collection.
C14_TypedInsertion ==
    [][lastOp' \in TypedInsertions =>
          LET p == lastArgs'[1]
              o == lastArgs'[2]
              coll == ExpectedCollection(lastOp', heap[o].variant)
          IN  /\ heap' = heap /\ diagram' = diagram
              /\ IF coll # None
                 THEN /\ ret' = None
                      /\ proc' = [proc EXCEPT ![p][coll] = Append(@, o)]
                 ELSE /\ ret' = "ValueError"
                      /\ proc' = proc]_vars

\* C14 witness: after an element was added, add_connecting_object was called with a
\* MessageFlow and failed.
C14_Witness ==
    /\ lastOp = "add_connecting_object" /\ ret = "ValueError"
    /\ heap[lastArgs[2]].variant = "MessageFlow"
    /\ nOps >= 1

\* The elements passed to the successful calls of op on process p whose variant is
\* in variants, in call order.
Inserted(p, op, variants) ==
    LET hits == SelectSeq(log, LAMBDA c : c[1] = op /\ c[2] = p /\ heap[c[3]].variant \in variants)
    IN  [i \in 1..Len(hits) |-> hits[i][3]]

AllVariants == {heap[o].variant : o \in DOMAIN heap}

InsertedFlowObjects(p) ==
    Inserted(p, "add_flow_object", {"Event"}) \o Inserted(p, "add_flow_object", {"Task"}) \o
    Inserted(p, "add_flow_object", {"Gateway"}) \o
    Inserted(p, "add_flow_object", {"SubProcess"})

\* C15: whatever the interleaving of the insertions, get_all_elements() is events,
\* tasks, gateways, sub-processes, sequence flows, associations, data objects, data
\* stores, groups, text annotations, lanes, each segment in insertion order, and
\* get_all_flow_objects() is the first four segments.
C15_ConcatenationOrder ==
    \A p \in Procs :
        /\ get_all_flow_objects(p) = InsertedFlowObjects(p)
        /\ get_all_elements(p) =
              InsertedFlowObjects(p) \o
              Inserted(p, "add_connecting_object", {"SequenceFlow"}) \o
              Inserted(p, "add_connecting_object", {"Association"}) \o
              Inserted(p, "add_artifact", {"DataObject"}) \o
              Inserted(p, "add_artifact", {"DataStore"}) \o
              Inserted(p, "add_artifact", {"Group"}) \o
              Inserted(p, "add_artifact", {"TextAnnotation"}) \o
              Inserted(p, "add_lane", AllVariants)

\* C15 witness: a task was added before an event, and the event comes first.
C15_Witness ==
    /\ Len(log) = 2
    /\ heap[log[1][3]].variant = "Task" /\ heap[log[2][3]].variant = "Event"
    /\ get_all_flow_objects("P1") = <<log[2][3], log[1][3]>>
    /\ get_all_elements("P1") = <<log[2][3], log[1][3]>>

\* ---- first match (SpecLookup)
\* The element of s at the least position whose id is x; NoElement when there is none.
FirstMatch(s, x) ==
    IF \E i \in DOMAIN s : heap[s[i]].id = x
    THEN s[CHOOSE i \in DOMAIN s :
              heap[s[i]].id = x /\ \A j \in 1..(i - 1) : heap[s[j]].id # x]
    ELSE NoElement

\* The groups of the diagram in the documented order, each flattened.
RECURSIVE ProcessesFlat(_)
ProcessesFlat(ps) ==
    IF ps = <<>> THEN <<>> ELSE get_all_elements(Head(ps)) \o ProcessesFlat(Tail(ps))
RECURSIVE PoolsFlat(_)
PoolsFlat(pools) ==
    IF pools = <<>> THEN <<>>
    ELSE <<Head(pools)>> \o heap[Head(pools)].lanes \o PoolsFlat(Tail(pools))
DiagramScanOrder ==
    ProcessesFlat(diagram.processes) \o PoolsFlat(diagram.pools) \o
    diagram.message_flows \o diagram.global_data_stores \o diagram.global_text_annotations

SharedIds == {"x", "y", "z"}

\* C16: Process.get_element_by_id returns the first element with the id in
\* get_all_elements() order; BPMNDiagram.get_element_by_id returns the first match
\* in the order processes (in insertion order), pools with their lanes, message
\* flows, global data stores, global text annotations, so that a match in an
\* earlier group wins over a match in a later one.
C16_FirstMatch ==
    \A x \in SharedIds :
        /\ \A p \in Procs : ProcessGetElementById(p, x) = FirstMatch(get_all_elements(p), x)
        /\ DiagramGetElementById(x) = FirstMatch(DiagramScanOrder, x)
        /\ \A k \in DOMAIN diagram.processes :
              (/\ ProcessGetElementById(diagram.processes[k], x) # NoElement
               /\ \A k2 \in 1..(k - 1) :
                     ProcessGetElementById(diagram.processes[k2], x) = NoElement)
                 => DiagramGetElementById(x) = ProcessGetElementById(diagram.processes[k], x)

\* C16 witness: id "x" is carried by no element of the first process of the
\* diagram, by two elements of the second and by a global data store, and the
\* lookup returns the first of the two in get_all_elements() order.
C16_Witness ==
    /\ Len(diagram.processes) = 2
    /\ ProcessGetElementById(diagram.processes[1], "x") = NoElement
    /\ \E i, j \in DOMAIN get_all_elements(diagram.processes[2]) :
          /\ i < j
          /\ heap[get_all_elements(diagram.processes[2])[i]].id = "x"
          /\ heap[get_all_elements(diagram.processes[2])[j]].id = "x"
          /\ get_all_elements(diagram.processes[2])[i] # get_all_elements(diagram.processes[2])[j]
    /\ FirstWithId(diagram.global_data_stores, "x") # NoElement
    /\ DiagramGetElementById("x") = ProcessGetElementById(diagram.processes[2], "x")
    /\ DiagramGetElementById("x") # NoElement

\* C16 second witness part: a pool lane and a message flow both carry "x", no
\* process does, and the lookup returns the lane.
C16_WitnessPools ==
    /\ FirstInProcesses(diagram.processes, "x") = NoElement
    /\ FirstInPools(diagram.pools, "x") # NoElement
    /\ FirstWithId(diagram.message_flows, "x") # NoElement
    /\ heap[DiagramGetElementById("x")].variant = "Lane"

\* ---- gateway configuration (SpecGateway)
\* C17 as claimed: set_default_flow(id) sets default_flow to id on an exclusive or
\* inclusive gateway; on every other kind it fails with ValueError (the
\* configuration error, whose message names the kind) and default_flow keeps its value.
C17_SetDefaultFlow ==
    [][lastOp' = "set_default_flow" =>
          LET g == lastArgs'[1]
              flow_id == lastArgs'[2]
          IN  IF heap[g].gateway_type \in {EXCLUSIVE, INCLUSIVE}
              THEN /\ ret' = None
                   /\ heap' = [heap EXCEPT ![g].default_flow = flow_id]
              ELSE /\ ret' = "ValueError"
                   /\ heap' = heap]_vars

\* C18: enable_process_instantiation() sets instantiate to true on a gateway of one
\* of the three event-based kinds; on every other kind it fails with ValueError and
\* instantiate keeps its value.
C18_EnableProcessInstantiation ==
    [][lastOp' = "enable_process_instantiation" =>
          LET g == lastArgs'[1] IN
          IF heap[g].gateway_type \in {EVENT_BASED, EXCLUSIVE_EVENT_BASED, PARALLEL_EVENT_BASED}
          THEN /\ ret' = None
               /\ heap' = [heap EXCEPT ![g].instantiate = PyBool(TRUE)]
          ELSE /\ ret' = "ValueError"
               /\ heap' = heap]_vars

\* C18 witness: instantiation was enabled on the exclusive-event-based and on the
\* parallel-event-based gateway, and the call then failed on a parallel gateway.
C18_Witness ==
    /\ lastOp = "enable_process_instantiation" /\ ret = "ValueError"
    /\ heap[lastArgs[1]].gateway_type = PARALLEL
    /\ heap[lastArgs[1]].instantiate = PyBool(FALSE)
    /\ \E g1, g2 \in DOMAIN heap :
          /\ heap[g1].gateway_type = EXCLUSIVE_EVENT_BASED /\ heap[g1].instantiate = PyBool(TRUE)
          /\ heap[g2].gateway_type = PARALLEL_EVENT_BASED /\ heap[g2].instantiate = PyBool(TRUE)

\* ---- boundary attachment (SpecEvent)
\* C19: attach_to_activity(activity_id, interrupting) makes the event a boundary
\* event with that attachment and that flag, whatever its phase was, and no
\* operation takes a boundary event back to another phase or clears its attachment.
C19_AttachOneWay ==
    [][/\ lastOp' = "attach_to_activity" =>
             heap' = [heap EXCEPT ![lastArgs'[1]].event_type = BOUNDARY,
                                  ![lastArgs'[1]].attached_to_ref = lastArgs'[2],
                                  ![lastArgs'[1]].is_interrupting = PyBool(lastArgs'[3])]
       /\ \A e \in DOMAIN heap :
             heap[e].event_type = BOUNDARY =>
                /\ heap'[e].event_type = BOUNDARY
                /\ heap[e].attached_to_ref # None => heap'[e].attached_to_ref # None]_vars

\* C19 witness: an end event was attached to an activity as non-interrupting, and
\* a later operation on the same event has left it a boundary event.
C19_Witness ==
    /\ Len(log) = 2
    /\ log[1][1] = "attach_to_activity" /\ log[1][4] = FALSE
    /\ \E e \in DOMAIN heap :
          /\ heap[e].id = "ev3"
          /\ log[1][2] = e
          /\ \/ log[2][1] = "set_timer_trigger" /\ log[2][2] = e
             \/ log[2][1] \in {"add_flow_object", "SubProcess.add_element"} /\ log[2][3] = e
          /\ heap[e].event_type = BOUNDARY
          /\ heap[e].attached_to_ref = log[1][3]
          /\ heap[e].is_interrupting = PyBool(FALSE)

\* The last position of the log at which event e was attached (by
\* attach_to_activity or by add_boundary_event), and the id it was attached to.
AttachPositions(e) ==
    {k \in DOMAIN log :
        \/ log[k][1] = "attach_to_activity" /\ log[k][2] = e
        \/ log[k][1] = "SubProcess.add_boundary_event" /\ log[k][3] = e}
AttachedIdAt(k) ==
    IF log[k][1] = "attach_to_activity" THEN log[k][3] ELSE heap[log[k][2]].id
LastAttach(e) == CHOOSE k \in AttachPositions(e) : \A k2 \in AttachPositions(e) : k2 <= k

\* C20: add_boundary_event(event) attaches the event to the sub-process (phase
\* boundary, attached_to_ref the sub-process's id, whatever it was attached to
\* before) and then appends it to boundary_events; hence every event in a
\* sub-process's boundary_events is a boundary event and, unless it was attached
\* elsewhere afterwards, refers to that sub-process.
C20_BoundaryContainment ==
    /\ [][lastOp' = "SubProcess.add_boundary_event" =>
             LET sp == lastArgs'[1]
                 e == lastArgs'[2]
             IN  heap' = [heap EXCEPT ![e].event_type = BOUNDARY,
                                      ![e].attached_to_ref = heap[sp].id,
                                      ![e].is_interrupting = PyBool(TRUE),
                                      ![sp].boundary_events = Append(@, e)]]_vars
    /\ [](\A sp \in DOMAIN heap : \A j \in DOMAIN heap[sp].boundary_events :
             LET e == heap[sp].boundary_events[j] IN
             /\ heap[e].event_type = BOUNDARY
             /\ AttachedIdAt(LastAttach(e)) = heap[sp].id
                   => heap[e].attached_to_ref = heap[sp].id)

\* C20 witness: an event attached to a task was added to sp1 as a boundary event
\* and now refers to sp1.
C20_Witness ==
    /\ Len(log) = 2
    /\ log[1][1] = "attach_to_activity" /\ log[1][3] = "t1"
    /\ log[2][1] = "SubProcess.add_boundary_event" /\ log[2][3] = log[1][2]
    /\ heap[log[2][2]].id = "sp1"
    /\ heap[log[2][2]].boundary_events = <<log[1][2]>>
    /\ heap[log[1][2]].attached_to_ref = "sp1"
    /\ heap[log[1][2]].event_type = BOUNDARY

\* C20 second witness part: an event added to sp1 was then added to sp2; it is in
\* both lists and refers to sp2.
C20_WitnessReattached ==
    /\ Len(log) = 2
    /\ log[1][1] = "SubProcess.add_boundary_event" /\ heap[log[1][2]].id = "sp1"
    /\ log[2][1] = "SubProcess.add_boundary_event" /\ heap[log[2][2]].id = "sp2"
    /\ log[1][3] = log[2][3]
    /\ heap[log[1][2]].boundary_events = <<log[1][3]>>
    /\ heap[log[1][3]].attached_to_ref = "sp2"

\* The positions of the log that hold a multi-instance call on task t.
MultiInstancePositions(t) ==
    {i \in DOMAIN log :
        /\ log[i][1] \in {"set_multi_instance_parallel", "set_multi_instance_sequential"}
        /\ log[i][2] = t}
LastMultiInstance(t) ==
    CHOOSE i \in MultiInstancePositions(t) : \A j \in MultiInstancePositions(t) : j <= i
CalledOn(t, op) == \E i \in MultiInstancePositions(t) : log[i][1] = op

\* C21: set_multi_instance_parallel and set_multi_instance_sequential each append
\* their marker to the task's marker list, keeping every marker already there, and
\* set collection, element_variable and is_sequential (false for parallel, true for
\* sequential); once both were called on one task the list holds both markers, the
\* three is_*multi_instance tests are true and is_sequential is that of the later call.
C21_MultiInstanceMarkers ==
    /\ [][/\ lastOp' = "set_multi_instance_parallel" =>
               LET t == lastArgs'[1] IN
               heap' = [heap EXCEPT ![t].markers = heap[t].markers \o <<PARALLEL_MULTI_INSTANCE>>,
                                    ![t].collection = lastArgs'[2],
                                    ![t].element_variable = lastArgs'[3],
                                    ![t].is_sequential = PyBool(FALSE)]
          /\ lastOp' = "set_multi_instance_sequential" =>
               LET t == lastArgs'[1] IN
               heap' = [heap EXCEPT ![t].markers = heap[t].markers \o <<SEQUENTIAL_MULTI_INSTANCE>>,
                                    ![t].collection = lastArgs'[2],
                                    ![t].element_variable = lastArgs'[3],
                                    ![t].is_sequential = PyBool(TRUE)]]_vars
    /\ [](\A t \in DOMAIN heap :
             (CalledOn(t, "set_multi_instance_parallel")
                /\ CalledOn(t, "set_multi_instance_sequential")) =>
                /\ is_multi_instance(t)
                /\ is_parallel_multi_instance(t)
                /\ is_sequential_multi_instance(t)
                /\ heap[t].is_sequential =
                      PyBool(log[LastMultiInstance(t)][1] = "set_multi_instance_sequential"))

\* C21 witness: the task constructed with a loop marker was configured sequential
\* and then parallel; it holds the three markers in that order and is_sequential is
\* false.
C21_Witness ==
    /\ Len(log) = 2
    /\ log[1][1] = "set_multi_instance_sequential" /\ log[1][2] = 2
    /\ log[2][1] = "set_multi_instance_parallel" /\ log[2][2] = 2
    /\ heap[2].markers = <<LOOP, SEQUENTIAL_MULTI_INSTANCE, PARALLEL_MULTI_INSTANCE>>
    /\ heap[2].is_sequential = PyBool(FALSE)
    /\ is_parallel_multi_instance(2) /\ is_sequential_multi_instance(2)

\* The sum over the entries of ps of the length of collection key.
RECURSIVE SumOverProcesses(_, _)
SumOverProcesses(ps, key) ==
    IF ps = <<>> THEN 0 ELSE Len(proc[Head(ps)][key]) + SumOverProcesses(Tail(ps), key)

\* C22: count_elements() reports for each of its eleven categories the length of
\* the typed collection, and count_all_elements() reports the lengths of the five
\* diagram-level collections and, for every process-level category, the sum of
\* that category's count over the processes of the diagram, 0 when the diagram
\* has no process.
C22_Counts ==
    /\ \A p \in Procs :
          /\ DOMAIN count_elements(p) = ProcessCountKeys
          /\ \A key \in ProcessCountKeys : count_elements(p)[key] = Len(proc[p][key])
    /\ DOMAIN count_all_elements = DiagramCountKeys \cup ProcessCountKeys
    /\ \A key \in DiagramCountKeys : count_all_elements[key] = Len(diagram[key])
    /\ \A key \in ProcessCountKeys :
          count_all_elements[key] = SumOverProcesses(diagram.processes, key)

\* C22, the part the code keeps: the process-level categories are reported, as
\* the sums, whenever the diagram holds at least one process; with no process the
\* report holds the five diagram-level entries only.
C22_CountsOfProcesses ==
    /\ \A key \in DiagramCountKeys : count_all_elements[key] = Len(diagram[key])
    /\ IF diagram.processes = <<>>
       THEN DOMAIN count_all_elements = DiagramCountKeys
       ELSE /\ DOMAIN count_all_elements = DiagramCountKeys \cup ProcessCountKeys
            /\ \A key \in ProcessCountKeys :
                  count_all_elements[key] = SumOverProcesses(diagram.processes, key)

\* A state where the sums are over two entries with different counts.
C22_SumsReached ==
    /\ Len(diagram.processes) = 2
    /\ diagram.processes[1] # diagram.processes[2]
    /\ count_all_elements["events"] = 2
    /\ count_elements("P2")["events"] = 0

\* The references held by the elements the graph contains or refers to.
ReferencesOf(o) ==
    ({heap[o].source_ref, heap[o].target_ref, heap[o].attached_to_ref} \cup
     (IF heap[o].variant = "Gateway" THEN {heap[o].default_flow} ELSE {}) \cup
     (IF heap[o].variant = "Pool" THEN {heap[o].process_ref} ELSE {})) \ {None}
\* The ids of the constructed elements and processes.
CarriedIds == {heap[o].id : o \in DOMAIN heap} \cup {proc[p].id : p \in Procs}
\* The element o refers to an id that nothing carries.
Dangles(o) == ReferencesOf(o) \ CarriedIds # {}
\* The elements held by a process or by the diagram.
HeldBy(p) == {get_all_elements(p)[i] : i \in DOMAIN get_all_elements(p)}
HeldByDiagram ==
    {diagram.pools[i] : i \in DOMAIN diagram.pools} \cup
    {diagram.message_flows[i] : i \in DOMAIN diagram.message_flows}

\* C23: an add operation given an element with a dangling reference (sequence
\* flow, message flow, attached event, pool with process_ref), and set_default_flow
\* given an id no flow carries, succeed and store it; and validate() with the
\* four built-in rules then reports nothing: on the two clean processes, whatever
\* dangling elements were added, it returns true with an empty buffer.
C23_DanglingUnchecked ==
    /\ [][/\ lastOp' = "add_connecting_object" =>
               /\ Dangles(lastArgs'[2]) /\ ret' = None
               /\ proc' = [proc EXCEPT ![lastArgs'[1]].sequence_flows =
                                            Append(@, lastArgs'[2])]
          /\ lastOp' = "add_message_flow" =>
               /\ Dangles(lastArgs'[1]) /\ ret' = None
               /\ diagram' = [diagram EXCEPT !.message_flows = Append(@, lastArgs'[1])]
          /\ lastOp' = "add_pool" =>
               /\ Dangles(lastArgs'[1]) /\ ret' = None
               /\ diagram' = [diagram EXCEPT !.pools = Append(@, lastArgs'[1])]
          /\ lastOp' = "attach_to_activity" =>
               /\ lastArgs'[2] \notin CarriedIds /\ ret' = None
               /\ heap'[lastArgs'[1]].attached_to_ref = lastArgs'[2]
          /\ lastOp' = "set_default_flow" =>
               /\ lastArgs'[2] \notin CarriedIds /\ ret' = None
               /\ heap'[lastArgs'[1]].default_flow = lastArgs'[2]
          /\ lastOp' = "add_flow_object" =>
               /\ ret' = None
               /\ proc' = [proc EXCEPT ![lastArgs'[1]].events = Append(@, lastArgs'[2])]
         ]_vars
    /\ [](ValidateReturned => ret = "True" /\ results = <<>>)

\* C23 witness: the dangling sequence flow was added to the Scenario-B process and
\* validate() then returned true with an empty buffer.
C23_Witness ==
    /\ log = << <<"add_connecting_object", "P1", 11>> >>
    /\ Dangles(11) /\ 11 \in HeldBy("P1")
    /\ heap[11].source_ref \notin CarriedIds /\ heap[11].target_ref \notin CarriedIds
    /\ ValidateReturned /\ ret = "True" /\ results = <<>>

\* C23, further cases reached: the event attached to "nx3" is held by the gateway's
\* process whose gateway has the dangling default flow, and validate() returned
\* true; the dangling pool and message flow are held by the diagram.
C23_WitnessAttached ==
    /\ Len(log) = 2
    /\ heap[13].attached_to_ref = "nx3" /\ 13 \in HeldBy("P2")
    /\ ValidateReturned /\ ret = "True" /\ results = <<>>
C23_WitnessDiagram ==
    /\ HeldByDiagram = {12, 14} /\ Dangles(12) /\ Dangles(14)
    /\ ValidateReturned /\ ret = "True" /\ results = <<>>
C23_WitnessDefaultFlow ==
    /\ heap[7].default_flow = "nx4" /\ Dangles(7)
    /\ ValidateReturned /\ ret = "True" /\ results = <<>>

\* ---- gateways as constructed (SpecGatewayConstructed)
\* The gateway g has a default flow only if its kind is exclusive or inclusive.
DefaultFlowOnlyOnDecision(h, g) ==
    h[g].default_flow # None => h[g].gateway_type \in {EXCLUSIVE, INCLUSIVE}

\* C24 as claimed: in every state reached by constructing gateways with any
\* constructor arguments and applying gateway operations, a gateway whose
\* default_flow is set has kind exclusive or inclusive.
C24_DefaultFlowKind ==
    \A g \in OfVariant({"Gateway"}) : DefaultFlowOnlyOnDecision(heap, g)

\* C24, the part the code keeps: no gateway operation sets a default flow on a
\* gateway of another kind, or changes the kind of a gateway.
C24_OperationsKeepKind ==
    [][\A g \in OfVariant({"Gateway"}) :
          /\ heap'[g].gateway_type = heap[g].gateway_type
          /\ DefaultFlowOnlyOnDecision(heap, g) => DefaultFlowOnlyOnDecision(heap', g)]_vars

\* ---- ownership (SpecContainer)
\* The lists an element object holds itself, one after the other.
OwnLists(o) ==
    heap[o].elements \o heap[o].sequence_flows \o heap[o].boundary_events \o
    heap[o].lanes \o heap[o].child_lanes
RECURSIVE OwnListsFrom(_)
OwnListsFrom(o) ==
    IF o > Len(heap) THEN <<>> ELSE OwnLists(o) \o OwnListsFrom(o + 1)
\* Every membership of an element in a container: the typed collections of the
\* two processes, the lists of the sub-processes, pools and lanes, and the
\* element collections of the diagram.
AllHoldings ==
    get_all_elements("P1") \o get_all_elements("P2") \o OwnListsFrom(1) \o
    diagram.pools \o diagram.message_flows \o diagram.global_data_stores \o
    diagram.global_text_annotations

\* C25 as claimed: after any sequence of add operations every element is a
\* member of at most one container, and once: no element object is in two
\* processes, in a process and a sub-process, or twice in one collection.
C25_ExclusiveContainment ==
    \A o \in DOMAIN heap : Occurrences(AllHoldings, o) <= 1

\* C25, the states that refute it: one task object held by both processes; one
\* event held by a process and by a sub-process; one element twice in one collection.
C25_InTwoProcesses ==
    \E o \in DOMAIN heap :
        Occurrences(get_all_elements("P1"), o) = 1 /\ Occurrences(get_all_elements("P2"), o) = 1
C25_InProcessAndSubProcess ==
    \E o \in DOMAIN heap : \E sp \in OfVariant({"SubProcess"}) :
        Occurrences(get_all_elements("P1"), o) = 1 /\ Occurrences(heap[sp].elements, o) = 1
C25_TwiceInOneCollection ==
    \E o \in DOMAIN heap : Occurrences(proc["P1"].tasks, o) = 2

\* ---- lifetime of the members (SpecLifetime)
\* s is an initial part of t.
IsPrefix(s, t) == Len(s) <= Len(t) /\ SubSeq(t, 1, Len(s)) = s

\* C26: no operation of the public interface (add_*, lookups, counts, element
\* setters, validate()) removes or moves a member: every collection of every
\* process and of the diagram is, after the step, what it was before followed by
\* what the step appended.
C26_NeverRemoved ==
    [][/\ \A p \in Procs : \A key \in ProcessCountKeys : IsPrefix(proc[p][key], proc'[p][key])
       /\ \A key \in DiagramCountKeys : IsPrefix(diagram[key], diagram'[key])]_vars

\* C26 witness: after a message flow and a sequence flow were added and validate()
\* has run, mf0 is still the first message flow and f1, f2 the first sequence
\* flows of P1, followed by the new ones.
C26_Witness ==
    /\ nOps = 2 /\ lastOp = "validate"
    /\ diagram.message_flows = <<9, 10>>
    /\ proc["P1"].sequence_flows = <<4, 5, 4>>
    /\ proc["P1"].events = <<1, 3>>

\* ---- validate() against concurrent mutation (SpecConcurrent)
\* A validate() run has just returned.
RunReturned == lastOp = "validate" /\ pc = 0

\* C27: when no add_* took place between the steps of a validate() run, the
\* buffer it leaves is the findings of the one graph state it ran on; with an add
\* between two rule executions there is a run whose buffer is neither the findings
\* of the graph before the add nor those of the graph after it (C27_Witness).
C27_AtomicWhenSerialized ==
    (RunReturned /\ log = <<>>) => results = FindingsNow

\* C27 witness: a run with one add between two rule executions has returned, and
\* its buffer differs from the findings before the add and from those after it.
C27_Witness ==
    /\ RunReturned /\ Len(log) = 1
    /\ log[1].at \in 2..Len(rules)
    /\ results # log[1].before
    /\ results # FindingsNow

\* C27, the two kinds of wrong buffer: a finding in the buffer that neither graph
\* state has, being resolved by the add (spurious), and a finding of the graph
\* after the add that the buffer lacks (missing).
C27_WitnessSpurious ==
    /\ RunReturned /\ Len(log) = 1
    /\ \E i \in DOMAIN results : \A j \in DOMAIN FindingsNow : FindingsNow[j] # results[i]
C27_WitnessMissing ==
    /\ RunReturned /\ Len(log) = 1
    /\ \E j \in DOMAIN FindingsNow : \A i \in DOMAIN results : results[i] # FindingsNow[j]

\* ---- what validate() writes (SpecRules)
\* C28: a validate() run with the four built-in rules leaves every collection of
\* the diagram and of its processes, every field of every element (the lists of
\* pools, lanes and sub-processes included) and the validator's rule list as they
\* were; of the validator and the graph only the findings buffer may differ.
C28_ValidateReadOnly ==
    [][lastOp' = "validate" =>
          /\ heap' = heap
          /\ proc' = proc
          /\ diagram' = diagram
          /\ rules' = rules /\ rules = BuiltinRules]_vars

\* C28 witness: over a graph that add_* calls have extended, validate() has
\* written findings of three different rules into the buffer.
C28_Witness ==
    /\ lastOp = "validate" /\ nOps = 2
    /\ Cardinality({results[i].rule_name : i \in DOMAIN results}) >= 3
    /\ rules = BuiltinRules

\* ---- what the buffer reflects (SpecRules)
\* C29: the buffer starts empty, with has_errors() and has_warnings() false,
\* whatever the diagram holds, and only validate() writes it: every other call
\* (a mutation that adds or fixes a defect included) leaves the buffer, has_errors()
\* and has_warnings() as the most recent validate() run left them.
C29_BufferOfLastRun ==
    /\ (results = <<>> /\ ~has_errors /\ ~has_warnings)
    /\ [][lastOp' # "validate" =>
             /\ results' = results
             /\ has_errors' = has_errors
             /\ has_warnings' = has_warnings]_vars

\* C29 witness: validate() reported an error, an add then fixed the defect, and
\* the buffer still holds the error that a new run would no longer report.
C29_Witness ==
    /\ lastOp \in {"add_flow_object", "add_connecting_object", "add_process"} /\ ret = None
    /\ has_errors
    /\ ~AnySeverity(FindingsNow, ERROR)

\* C29, the other case: no validate() has run on a diagram with defects, and the
\* buffer is empty.
C29_WitnessBeforeFirstRun ==
    /\ lastOp = "init" /\ results = <<>> /\ ~has_errors /\ ~has_warnings
    /\ AnySeverity(FindingsNow, ERROR) /\ AnySeverity(FindingsNow, WARNING)

\* ---- a rule that raises (Spec)
\* validate() ran last and ended by the exception of a rule.
ValidateRaised == lastOp = "validate" /\ ret = "NotImplementedError"
\* The positions of the rule list holding a base ValidationRule, and the first.
BaseRulePositions == {i \in DOMAIN rules : rules[i] = "base_rule"}
FirstBaseRule == CHOOSE i \in BaseRulePositions : \A j \in BaseRulePositions : i <= j

\* C30: validate() raises exactly when the rule list holds a rule that raises;
\* the buffer is then the findings, on the diagram as it is, of the rules before
\* the first such rule, in order: no later rule has run, and nothing of the
\* previous run is left or restored.
C30_RaisingRule ==
    lastOp = "validate" =>
        /\ ValidateRaised <=> BaseRulePositions # {}
        /\ ValidateRaised =>
              results = FindingsInRuleOrder(SubSeq(rules, 1, FirstBaseRule - 1))

\* C30 witness: a base rule was registered before a rule that reports an error;
\* validate() raised, the buffer holds findings of built-in rules and none of the
\* later rule.
C30_Witness ==
    /\ ValidateRaised
    /\ registered = <<"base_rule", "custom_error_rule">>
    /\ results # <<>>
    /\ \A i \in DOMAIN results : results[i].rule_name \in Range(BuiltinRules)

\* C30, a rule before the failing one: its finding is in the buffer.
C30_WitnessEarlierRule ==
    /\ ValidateRaised
    /\ registered = <<"custom_info_rule", "base_rule">>
    /\ \E i \in DOMAIN results : results[i].rule_name = "custom_info_rule"

====
